---------------------------- MODULE Spec2Model ----------------------------
(***************************************************************************)
(* Model of the sync-buffer and delivery core of the Aldelo extraction     *)
(* agent (src/smart_agent.py): the SQLite buffer SyncBuffer, the chunker   *)
(* SmartAgent._chunk_data, the delivery loop SmartAgent.push_to_api and    *)
(* the cycle SmartAgent.run_extraction_job, fed by the extraction result   *)
(* of src/tools/access_db.py.                                              *)
(*                                                                         *)
(* The specifications share the variables:                                *)
(*   SpecChunk   _chunk_data applied to every bounded extraction result    *)
(*   SpecQueue   the SyncBuffer operations called in any order             *)
(*   SpecPurge   cleanup_old on the buffers earlier ticks have left        *)
(*   SpecDeliver push_to_api against an arbitrary transport                *)
(*   Spec        the agent running sync cycles                             *)
(*   SpecLive    sync cycles run for ever, the transport answering 200     *)
(*   SpecRun     SmartAgent.run with the jobs of the schedule module       *)
(*   SpecStop    SpecRun with the operator's Ctrl+C                        *)
(*   SpecFault   SpecRun on a buffer whose storage may fail                *)
(*   SpecConc    two callers of one buffer file, statement by statement    *)
(***************************************************************************)
EXTENDS Integers, Sequences, FiniteSets, TLC

VARIABLES
    pending,      \* table pending_sync: a set of rows
    history,      \* table sync_history: a set of rows
    next_id,      \* number of uuid4 values drawn so far (each draw is fresh)
    now,          \* the wall clock, in ticks
    config,       \* SmartAgent.config: retry_attempts, retry_delay_seconds
    sync_errors,  \* SmartAgent.sync_errors
    last_sync,    \* SmartAgent.last_sync
    pc,           \* where the main thread is
    plist,        \* sync_pending: the list returned by get_pending
    pidx,         \* sync_pending: index of the current item
    data,         \* run_extraction_job / _chunk_data: the extraction result
    chunk_size,   \* _chunk_data: its chunk_size argument
    chunks,       \* the list returned by _chunk_data
    cidx,         \* run_extraction_job: index of the current chunk
    push,         \* the frame of the running push_to_api call
    calls,        \* transport calls made by the current push_to_api call
    sleeps,       \* time.sleep() calls made by the current push_to_api call
    ret,          \* the value the last finished push_to_api call returned
    oplog,        \* the last SyncBuffer operation called and the state before it
    cycle,        \* what the running sync cycle has done so far
    sched,        \* the jobs of the schedule module and where run() is
    hb,           \* last_heartbeat and the transport calls of the last send_heartbeat
    runlog,       \* the sync cycles run() has started: start, end, triggering
                  \* tick, whether the extraction failed
    conn          \* the SyncBuffer call each concurrent caller is in: every call
                  \* opens its own sqlite3 connection

vars == <<pending, history, next_id, now, config, sync_errors, last_sync, pc,
          plist, pidx, data, chunk_size, chunks, cidx, push, calls, sleeps,
          ret, oplog, cycle, sched, hb, runlog, conn>>

bufferVars == <<pending, history, next_id>>
agentVars == <<sync_errors, last_sync>>
cycleVars == <<plist, pidx, data, chunk_size, chunks, cidx, cycle>>
pushVars == <<push, calls, sleeps, ret>>
runVars == <<sched, hb, runlog, conn>>

---------------------------------------------------------------------------
(* Bounds of the model *)

\* longest collection of an extraction result given to _chunk_data in SpecChunk
MaxLen == 3
\* largest chunk_size given to _chunk_data in SpecChunk
MaxChunkSize == 3
\* chunk_size of run_extraction_job (5000 in the source), scaled down
ChunkSize == 2
\* uuid4 values drawn in SpecQueue
MaxIds == 2
\* last tick of the clock
MaxClock == 2
\* retry_count at which SpecQueue stops calling mark_failed
MaxRetryCount == 2
\* largest limit given to get_pending in SpecQueue
MaxLimit == 2
\* largest retry_attempts and retry_delay_seconds of SpecDeliver
MaxAttempts == 4
MaxBaseDelay == 2
\* sync cycles run in Spec
MaxCycles == 1
\* ticks the main loop of run() sleeps through in SpecRun
MaxRunClock == 4
\* minutes between two runs of a scheduled job, scaled down to ticks
ExtractionInterval == 2
HeartbeatInterval == 1
\* longest account_invoice_erp collection of an extraction result in Spec
MaxInvoices == 1

\* largest days given to cleanup_old in SpecPurge
MaxDays == 2

(* Constants of the program *)

\* sync_pending: get_pending(limit=5)
PendingLimit == 5
\* sync_pending: item["retry_count"] >= 10 is skipped
AbandonCeiling == 10
\* cleanup_old: MAX_BUFFER_AGE_DAYS
MaxBufferAgeDays == 7
\* the clock when the agent is constructed: rows a previous run of the agent
\* left in the buffer were created before it
BaseClock == PendingLimit + 1

---------------------------------------------------------------------------
(* Python values *)

\* Python's None, SQL's NULL: every value it is compared with is a tuple
None == <<>>

Min(a, b) == IF a <= b THEN a ELSE b

\* the sum of f[k] over the keys k in D
RECURSIVE SumOver(_, _)
SumOver(f, D) ==
    IF D = {} THEN 0
    ELSE LET k == CHOOSE x \in D : TRUE IN f[k] + SumOver(f, D \ {k})

\* s[i:j] on a list, 0-based, the end clipped to the length
Slice(s, i, j) == SubSeq(s, i + 1, Min(j, Len(s)))

\* list(range(i, n, step)) for step >= 1
RECURSIVE Range(_, _, _)
Range(i, n, step) ==
    IF i >= n THEN <<>> ELSE <<i>> \o Range(i + step, n, step)

\* dict.get(key, [])
DataGet(d, k) == IF k \in DOMAIN d THEN d[k] ELSE <<>>

---------------------------------------------------------------------------
(* The extraction result: tools/access_db.py extract_all_data *)

\* a collection of n records; a record is identified by its position
Records(n) == [i \in 1..n |-> i]

\* the dict extract_all_data returns: always these four keys
ExtractAllData(n1, n2, n3, n4) ==
    [orderheaders |-> Records(n1),
     orderpayments |-> Records(n2),
     account_invoice_erp |-> Records(n3),
     orderdetails |-> Records(n4)]

\* extract_data: total_records = sum(len(v) for v in data.values())
TotalRecords(d) == SumOver([k \in DOMAIN d |-> Len(d[k])], DOMAIN d)

---------------------------------------------------------------------------
(* The chunker: SmartAgent._chunk_data *)

\* one chunk of the loop over orderheaders
ChunkOrders(orderheaders, i, cs) ==
    LET chunk_orders == Slice(orderheaders, i, i + cs) IN
    <<[orderheaders |-> chunk_orders, orderpayments |-> <<>>,
       accountinvoiceerp |-> <<>>], Len(chunk_orders)>>

\* one chunk of the loop over orderpayments
ChunkPayments(orderpayments, i, cs) ==
    LET chunk_payments == Slice(orderpayments, i, i + cs) IN
    <<[orderheaders |-> <<>>, orderpayments |-> chunk_payments,
       accountinvoiceerp |-> <<>>], Len(chunk_payments)>>

\* one chunk of the loop over invoices
ChunkInvoices(invoices, i, cs) ==
    LET chunk_invoices == Slice(invoices, i, i + cs) IN
    <<[orderheaders |-> <<>>, orderpayments |-> <<>>,
       accountinvoiceerp |-> chunk_invoices], Len(chunk_invoices)>>

\* _chunk_data(data, chunk_size): a list of (chunk_data, chunk_count)
ChunkData(d, cs) ==
    LET orderheaders == DataGet(d, "orderheaders")
        orderpayments == DataGet(d, "orderpayments")
        invoices == DataGet(d, "accountinvoiceerp")
        total == Len(orderheaders) + Len(orderpayments) + Len(invoices)
        ro == Range(0, Len(orderheaders), cs)
        rp == Range(0, Len(orderpayments), cs)
        ri == Range(0, Len(invoices), cs)
    IN  IF total <= cs
        THEN << <<d, total>> >>
        ELSE [j \in 1..Len(ro) |-> ChunkOrders(orderheaders, ro[j], cs)]
             \o [j \in 1..Len(rp) |-> ChunkPayments(orderpayments, rp[j], cs)]
             \o [j \in 1..Len(ri) |-> ChunkInvoices(invoices, ri[j], cs)]

\* whether _chunk_data took the splitting branch
Splits(d, cs) ==
    Len(DataGet(d, "orderheaders")) + Len(DataGet(d, "orderpayments"))
        + Len(DataGet(d, "accountinvoiceerp")) > cs

---------------------------------------------------------------------------
(* Timestamps and JSON text as SQLite stores them *)

\* ticks of the clock per second: the clock's resolution
UsecPerSec == 2

\* datetime.isoformat(): the seconds, then the fraction unless it is zero.
\* A text is a sequence of fields of fixed width, compared as SQLite compares
\* TEXT: field by field, a proper prefix sorting first.
Isoformat(t) ==
    IF t % UsecPerSec = 0 THEN <<t \div UsecPerSec>>
    ELSE <<t \div UsecPerSec, t % UsecPerSec>>

\* a < b on TEXT values
RECURSIVE TextLess(_, _)
TextLess(a, b) ==
    IF b = <<>> THEN FALSE
    ELSE IF a = <<>> THEN TRUE
    ELSE IF Head(a) # Head(b) THEN Head(a) < Head(b)
    ELSE TextLess(Tail(a), Tail(b))

\* a <= b on TEXT values
TextLeq(a, b) == ~TextLess(b, a)

\* json.dumps of a JSON-able value, and json.loads of such a text
JsonDumps(v) == <<"json", v>>
JsonLoads(s) == s[2]

\* str(uuid.uuid4()): the n-th value drawn
Uuid(n) == <<"uuid", n>>

---------------------------------------------------------------------------
(* The durable queue: class SyncBuffer *)

\* the ids of a set of rows
Ids(rows) == {r.id : r \in rows}

\* the row add_pending inserts: retry_count, last_error and status take the
\* defaults of the table
PendingRow(sync_id, store_id, payload, record_count, t) ==
    [id |-> sync_id, store_id |-> store_id, payload |-> JsonDumps(payload),
     record_count |-> record_count, created_at |-> Isoformat(t),
     retry_count |-> 0, last_error |-> None, status |-> "pending"]

\* add_pending: table pending_sync after the INSERT
AddPending(P, sync_id, store_id, payload, record_count, t) ==
    P \cup {PendingRow(sync_id, store_id, payload, record_count, t)}

\* the dict get_pending builds from a row
PendingItem(r) ==
    [id |-> r.id, store_id |-> r.store_id, payload |-> JsonLoads(r.payload),
     record_count |-> r.record_count, retry_count |-> r.retry_count]

\* mutant: ORDER BY created_at DESC
RECURSIVE OrderedRows_Descending(_, _)
OrderedRows_Descending(S, k) ==
    IF k <= 0 \/ S = {} THEN {<<>>}
    ELSE LET first == {m \in S : \A o \in S : TextLeq(o.created_at, m.created_at)}
         IN  UNION {{<<r>> \o rest : rest \in OrderedRows_Descending(S \ {r}, k - 1)} :
                        r \in first}

\* every listing of k rows of S that ORDER BY created_at ASC LIMIT k may
\* produce: rows with equal created_at come in any order
RECURSIVE OrderedRows(_, _)
OrderedRows(S, k) ==
    IF k <= 0 \/ S = {} THEN {<<>>}
    ELSE LET first == {m \in S : \A o \in S : TextLeq(m.created_at, o.created_at)}
         IN  UNION {{<<r>> \o rest : rest \in OrderedRows(S \ {r}, k - 1)} : r \in first}

\* get_pending(limit), limit >= 0: the lists it may return
GetPending(P, limit) ==
    LET rows == OrderedRows({r \in P : r.status = "pending"}, limit)
    IN  {[i \in 1..Len(s) |-> PendingItem(s[i])] : s \in rows}

\* mutant: the history row counts one record whatever the batch held
HistoryRow_CountsOne(row, duration, t) ==
    [id |-> row.id, store_id |-> row.store_id, record_count |-> 1,
     synced_at |-> Isoformat(t), duration_seconds |-> duration,
     status |-> "success", error_message |-> None]

\* the row mark_synced inserts into sync_history
HistoryRow(row, duration, t) ==
    [id |-> row.id, store_id |-> row.store_id, record_count |-> row.record_count,
     synced_at |-> Isoformat(t), duration_seconds |-> duration,
     status |-> "success", error_message |-> None]

\* mutant: the DELETE FROM pending_sync is missing
MarkSynced_NoDelete(P, H, sync_id, duration, t) ==
    LET found == {r \in P : r.id = sync_id} IN
    IF found = {}
    THEN [pending |-> P, history |-> H, raised |-> FALSE]
    ELSE IF sync_id \in Ids(H)
    THEN [pending |-> P, history |-> H, raised |-> TRUE]
    ELSE [pending |-> P,
          history |-> H \cup {HistoryRow(r, duration, t) : r \in found},
          raised |-> FALSE]

\* mutant: a history row is written for an id that is not pending
MarkSynced_AlwaysInsert(P, H, sync_id, duration, t) ==
    LET found == {r \in P : r.id = sync_id} IN
    IF found = {}
    THEN [pending |-> P,
          history |-> H \cup {[id |-> sync_id, store_id |-> None, record_count |-> 0,
                               synced_at |-> Isoformat(t), duration_seconds |-> duration,
                               status |-> "success", error_message |-> None]},
          raised |-> FALSE]
    ELSE [pending |-> P \ found,
          history |-> H \cup {HistoryRow(r, duration, t) : r \in found},
          raised |-> FALSE]

\* mark_synced: both tables after the call. The INSERT fails on a history row
\* with the same primary key; the call then raises before its commit.
MarkSynced(P, H, sync_id, duration, t) ==
    LET found == {r \in P : r.id = sync_id} IN
    IF found = {}
    THEN [pending |-> P, history |-> H, raised |-> FALSE]
    ELSE IF sync_id \in Ids(H)
    THEN [pending |-> P, history |-> H, raised |-> TRUE]
    ELSE [pending |-> P \ found,
          history |-> H \cup {HistoryRow(r, duration, t) : r \in found},
          raised |-> FALSE]

\* mutant: a failed batch is deleted
MarkFailed_Deletes(P, sync_id, error) == {r \in P : r.id # sync_id}

\* mutant: the UPDATE has no WHERE clause
MarkFailed_NoWhere(P, sync_id, error) ==
    {[r EXCEPT !.retry_count = @ + 1, !.last_error = error] : r \in P}

\* mutant: the UPDATE sets retry_count = retry_count - 1
MarkFailed_Decrements(P, sync_id, error) ==
    {IF r.id = sync_id
     THEN [r EXCEPT !.retry_count = @ - 1, !.last_error = error]
     ELSE r : r \in P}

\* mark_failed: table pending_sync after the UPDATE
MarkFailed(P, sync_id, error) ==
    {IF r.id = sync_id
     THEN [r EXCEPT !.retry_count = @ + 1, !.last_error = error]
     ELSE r : r \in P}

\* ticks of the clock per day, scaled down to the ticks of a second
TicksPerDay == UsecPerSec

\* mutant: the DELETE on pending_sync spares the rows below the retry ceiling
CleanupOld_SparesRetryable(P, H, days, t) ==
    LET cutoff == Isoformat(t - days * TicksPerDay) IN
    [pending |-> {r \in P : ~(TextLess(r.created_at, cutoff)
                              /\ r.retry_count >= AbandonCeiling)},
     history |-> {h \in H : ~TextLess(h.synced_at, cutoff)}]

\* cleanup_old(days): both tables after the two DELETEs; cutoff is the
\* isoformat text of now - days, compared as TEXT
CleanupOld(P, H, days, t) ==
    LET cutoff == Isoformat(t - days * TicksPerDay) IN
    [pending |-> {r \in P : ~TextLess(r.created_at, cutoff)},
     history |-> {h \in H : ~TextLess(h.synced_at, cutoff)}]

---------------------------------------------------------------------------
(* The transport: requests.post *)

HttpOk == [kind |-> "http", status_code |-> 200, text |-> "ok"]
HttpError == [kind |-> "http", status_code |-> 500, text |-> "server error"]
ConnectionError == [kind |-> "exc", status_code |-> 0, text |-> "connection refused"]
Timeout == [kind |-> "exc", status_code |-> 0, text |-> "read timed out"]

\* what one requests.post may do: a response, or a RequestException raised
Responses == {HttpOk, HttpError, ConnectionError, Timeout}

\* push_to_api: error_msg after a failed attempt
ErrorMsg(resp) ==
    IF resp.kind = "http" THEN <<"HTTP", resp.status_code, resp.text>>
    ELSE <<resp.text>>

\* 2 ** n
RECURSIVE Pow2(_)
Pow2(n) == IF n <= 0 THEN 1 ELSE 2 * Pow2(n - 1)

\* mutant: the exponent is the attempt number
Delay_ExponentOffByOne(base_delay, attempt) == base_delay * Pow2(attempt)

\* push_to_api: delay = base_delay * (2 ** (attempt - 1))
Delay(base_delay, attempt) == base_delay * Pow2(attempt - 1)

---------------------------------------------------------------------------
(* The delivery engine: SmartAgent.push_to_api *)

\* no push_to_api call is running
NoPush ==
    [payload |-> None, sync_id |-> None, attempt |-> 0, error_msg |-> None,
     start_time |-> 0, caller |-> "idle"]

\* entering push_to_api(payload, sync_id): start_time is read, the loop starts
\* at attempt 1; error_msg is not bound yet
PushEnter(payload, sync_id, caller) ==
    /\ push' = [payload |-> payload, sync_id |-> sync_id, attempt |-> 1,
                error_msg |-> <<"unbound">>, start_time |-> now, caller |-> caller]
    /\ calls' = <<>>
    /\ sleeps' = <<>>
    /\ ret' = <<>>
    /\ pc' = "push"

\* the caller has read the return value: the frame of the call is gone
PushLeave ==
    /\ push' = NoPush
    /\ calls' = <<>>
    /\ sleeps' = <<>>
    /\ ret' = <<>>

\* attempt succeeded (HTTP 200): mark_synced when sync_id is given, then
\* last_sync and sync_errors are set and True is returned. An exception of
\* mark_synced is no RequestException: it leaves push_to_api. The clock has
\* advanced by one tick since push_to_api was entered.
PushSuccess ==
    LET r == IF push.sync_id # None
             THEN MarkSynced(pending, history, push.sync_id,
                             now + 1 - push.start_time, now + 1)
             ELSE [pending |-> pending, history |-> history, raised |-> FALSE]
    IN  IF r.raised
        THEN /\ pc' = "crashed"
             /\ now' = now + 1
             /\ UNCHANGED <<pending, history, last_sync, sync_errors, ret, push, sleeps>>
        ELSE /\ pending' = r.pending
             /\ history' = r.history
             /\ last_sync' = Isoformat(now + 1)
             /\ sync_errors' = 0
             /\ ret' = <<TRUE>>
             /\ pc' = push.caller
             /\ now' = now + 1
             /\ UNCHANGED <<push, sleeps>>

\* mutant: every failed attempt counts as a sync error
PushRetry_CountsAttempt(resp) ==
    /\ push' = [push EXCEPT !.attempt = @ + 1, !.error_msg = ErrorMsg(resp)]
    /\ sleeps' = Append(sleeps, Delay(config.retry_delay_seconds, push.attempt))
    /\ sync_errors' = sync_errors + 1
    /\ UNCHANGED <<pending, history, last_sync, ret, pc, now>>

\* attempt failed and another follows: error_msg is set, then time.sleep(delay)
PushRetry(resp) ==
    /\ push' = [push EXCEPT !.attempt = @ + 1, !.error_msg = ErrorMsg(resp)]
    /\ sleeps' = Append(sleeps, Delay(config.retry_delay_seconds, push.attempt))
    /\ UNCHANGED <<pending, history, last_sync, sync_errors, ret, pc, now>>

\* the last attempt failed: sync_errors += 1, mark_failed when sync_id is
\* given, False is returned
PushExhausted(resp) ==
    /\ push' = [push EXCEPT !.error_msg = ErrorMsg(resp)]
    /\ sync_errors' = sync_errors + 1
    /\ pending' = IF push.sync_id # None
                  THEN MarkFailed(pending, push.sync_id, ErrorMsg(resp))
                  ELSE pending
    /\ ret' = <<FALSE>>
    /\ pc' = push.caller
    /\ now' = now + 1
    /\ UNCHANGED <<history, last_sync, sleeps>>

\* mutant: the loop runs one attempt too many (range(1, max_retries + 2))
PushAttempt_OneTooMany(R) ==
    /\ pc = "push"
    /\ \E resp \in R :
        /\ calls' = Append(calls, [attempt |-> push.attempt,
                                   payload |-> push.payload, resp |-> resp])
        /\ IF resp.kind = "http" /\ resp.status_code = 200
           THEN PushSuccess
           ELSE IF push.attempt < config.retry_attempts + 1
           THEN PushRetry(resp)
           ELSE PushExhausted(resp)
    /\ UNCHANGED <<next_id, config, runVars, cycleVars, oplog>>

\* one pass of the loop of push_to_api, from requests.post to the next
\* requests.post or to the return; R is what the transport may answer
PushAttempt(R) ==
    /\ pc = "push"
    /\ \E resp \in R :
        /\ calls' = Append(calls, [attempt |-> push.attempt,
                                   payload |-> push.payload, resp |-> resp])
        /\ IF resp.kind = "http" /\ resp.status_code = 200
           THEN PushSuccess
           ELSE IF push.attempt < config.retry_attempts
           THEN PushRetry(resp)
           ELSE PushExhausted(resp)
    /\ UNCHANGED <<next_id, config, runVars, cycleVars, oplog>>

---------------------------------------------------------------------------
(* Values of the variables a specification does not use *)

NoEnq ==
    [id |-> None, store_id |-> None, record_count |-> 0, pending |-> {},
     history |-> {}]

NoOp ==
    [op |-> "none", id |-> None, arg |-> None, res |-> <<>>, raised |-> FALSE,
     enq |-> NoEnq]

NoCycle ==
    [n |-> 0, pre |-> {}, attempts |-> <<>>, skipped |-> <<>>,
     extracted |-> FALSE, sent |-> <<>>]

DefaultConfig == [store_id |-> "S1", retry_attempts |-> 2, retry_delay_seconds |-> 1]

\* run() has not been entered
NoSched ==
    [next_run |-> [extraction |-> 0, heartbeat |-> 0, cleanup |-> 0],
     at |-> "none", queue |-> <<>>, job |-> "none", ncycle |-> 0]

\* a caller that is in no SyncBuffer call
Idle ==
    [op |-> "none", at |-> "idle", id |-> None, row |-> {}, res |-> None,
     snaps |-> {}, raised |-> FALSE]

\* no caller is in a SyncBuffer call
NoConn == [c \in {1, 2} |-> Idle]

\* no heartbeat was sent
NoHeartbeat == [last_heartbeat |-> None, calls |-> <<>>, raised |-> FALSE]

InitLocals ==
    /\ plist = <<>>
    /\ pidx = 0
    /\ chunks = <<>>
    /\ cidx = 0
    /\ push = NoPush
    /\ calls = <<>>
    /\ sleeps = <<>>
    /\ ret = <<>>
    /\ oplog = NoOp
    /\ cycle = NoCycle
    /\ sched = NoSched
    /\ hb = NoHeartbeat
    /\ runlog = <<>>
    /\ conn = NoConn

\* the clock advances between two calls
Tick ==
    /\ now < BaseClock + MaxClock
    /\ now' = now + 1
    /\ UNCHANGED <<bufferVars, config, runVars, agentVars, pc, cycleVars, pushVars, oplog>>

---------------------------------------------------------------------------
(* SpecChunk: _chunk_data on every extraction result within the bounds *)

InitChunk ==
    /\ \E n1 \in 0..MaxLen, n2 \in 0..MaxLen, n3 \in 0..MaxLen, n4 \in 0..MaxLen :
           data = ExtractAllData(n1, n2, n3, n4)
    /\ chunk_size \in 1..MaxChunkSize
    /\ pc = "chunk_call"
    /\ pending = {}
    /\ history = {}
    /\ next_id = 0
    /\ now = BaseClock
    /\ config = DefaultConfig
    /\ sync_errors = 0
    /\ last_sync = None
    /\ InitLocals

\* chunks = self._chunk_data(data, chunk_size)
ChunkCall ==
    /\ pc = "chunk_call"
    /\ chunks' = ChunkData(data, chunk_size)
    /\ pc' = "chunk_done"
    /\ UNCHANGED <<bufferVars, now, config, runVars, agentVars, plist, pidx, data,
                   chunk_size, cidx, pushVars, oplog, cycle>>

NextChunk == ChunkCall

SpecChunk == InitChunk /\ [][NextChunk]_vars

\* the concatenation of collection k of the chunks j..Len(cs)
RECURSIVE Concat(_, _, _)
Concat(cs, k, j) ==
    IF j > Len(cs) THEN <<>> ELSE DataGet(cs[j][1], k) \o Concat(cs, k, j + 1)

\* the indexes of the chunks that carry records of collection k
Carriers(cs, k) == {j \in 1..Len(cs) : DataGet(cs[j][1], k) # <<>>}

\* ceil(n / d)
Ceil(n, d) == (n + d - 1) \div d

\* C1: when the total record count of the extraction result exceeds
\* chunk_size, the slices of the returned chunks, concatenated per collection
\* in emission order, are each collection of the input exactly.
C1_ChunksReconstructInput ==
    (pc = "chunk_done" /\ TotalRecords(data) > chunk_size)
        => \A k \in DOMAIN data : Concat(chunks, k, 1) = data[k]

\* C2: when the total record count over all the collections is at most
\* chunk_size, one chunk is returned, its data is the input and its reported
\* count is that total.
C2_SmallInputSingleChunk ==
    (pc = "chunk_done" /\ TotalRecords(data) <= chunk_size)
        => /\ Len(chunks) = 1
           /\ chunks[1][1] = data
           /\ chunks[1][2] = TotalRecords(data)

\* chunk j holds records of exactly one collection, between 1 and chunk_size
ChunkShapeOk(j) ==
    /\ Cardinality({k \in DOMAIN chunks[j][1] : chunks[j][1][k] # <<>>}) = 1
    /\ chunks[j][2] >= 1
    /\ chunks[j][2] <= chunk_size
    /\ chunks[j][2] = SumOver([k \in DOMAIN chunks[j][1] |-> Len(chunks[j][1][k])],
                              DOMAIN chunks[j][1])

\* C3: when the chunker splits, every chunk holds 1..chunk_size records of
\* exactly one collection, and a collection of n records comes out as
\* ceil(n / chunk_size) consecutive slices.
C3_SplitShape ==
    (pc = "chunk_done" /\ Splits(data, chunk_size))
        => /\ \A j \in 1..Len(chunks) : ChunkShapeOk(j)
           /\ \A k \in DOMAIN data :
                /\ Cardinality(Carriers(chunks, k)) = Ceil(Len(data[k]), chunk_size)
                /\ \A i, j \in Carriers(chunks, k) :
                       \A m \in i..j : m \in Carriers(chunks, k)

---------------------------------------------------------------------------
(* SpecQueue: the SyncBuffer operations, called in any order by any caller *)

\* the arguments the callers of SpecQueue pass
StoreIds == {"S1"}
QueuePayloads == {[data |-> <<1>>]}
RecordCounts == {1, 2}
CallIds == {Uuid(n) : n \in 1..MaxIds}
Errors == {ErrorMsg(HttpError), ErrorMsg(Timeout)}

InitQueue ==
    /\ pending = {}
    /\ history = {}
    /\ next_id = 0
    /\ now = BaseClock
    /\ config = DefaultConfig
    /\ sync_errors = 0
    /\ last_sync = None
    /\ pc = "queue"
    /\ data = None
    /\ chunk_size = ChunkSize
    /\ InitLocals

\* the call before this one, when it was add_pending: the id it returned
\* and the tables before it
LastEnqueue == IF oplog.op = "add_pending" THEN oplog.enq ELSE NoEnq

\* sync_id = add_pending(store_id, payload, record_count)
QAddPending(store_id, payload, record_count) ==
    /\ next_id < MaxIds
    /\ next_id' = next_id + 1
    /\ pending' = AddPending(pending, Uuid(next_id + 1), store_id, payload,
                             record_count, now)
    /\ oplog' = [op |-> "add_pending", id |-> Uuid(next_id + 1), arg |-> None,
                 res |-> <<>>, raised |-> FALSE,
                 enq |-> [id |-> Uuid(next_id + 1), store_id |-> store_id,
                          record_count |-> record_count, pending |-> pending,
                          history |-> history]]
    /\ UNCHANGED history

\* get_pending(limit)
QGetPending(limit) ==
    /\ \E res \in GetPending(pending, limit) :
         oplog' = [op |-> "get_pending", id |-> None, arg |-> <<limit>>,
                   res |-> res, raised |-> FALSE, enq |-> NoEnq]
    /\ UNCHANGED <<pending, history, next_id>>

\* mark_synced(sync_id, duration)
QMarkSynced(sync_id, duration) ==
    LET r == MarkSynced(pending, history, sync_id, duration, now) IN
    /\ pending' = r.pending
    /\ history' = r.history
    /\ oplog' = [op |-> "mark_synced", id |-> sync_id, arg |-> <<duration>>,
                 res |-> <<>>, raised |-> r.raised, enq |-> LastEnqueue]
    /\ UNCHANGED next_id

\* mark_failed(sync_id, error)
QMarkFailed(sync_id, error) ==
    /\ \A r \in pending : r.id = sync_id => r.retry_count < MaxRetryCount
    /\ pending' = MarkFailed(pending, sync_id, error)
    /\ oplog' = [op |-> "mark_failed", id |-> sync_id, arg |-> error,
                 res |-> <<>>, raised |-> FALSE, enq |-> NoEnq]
    /\ UNCHANGED <<history, next_id>>

\* cleanup_old(days)
QCleanupOld(days) ==
    LET r == CleanupOld(pending, history, days, now) IN
    /\ pending' = r.pending
    /\ history' = r.history
    /\ oplog' = [op |-> "cleanup_old", id |-> None, arg |-> <<days, now>>,
                 res |-> <<>>, raised |-> FALSE, enq |-> NoEnq]
    /\ UNCHANGED next_id

\* one call of an operation of the queue
QueueCall ==
    /\ pc = "queue"
    /\ \/ \E st \in StoreIds, p \in QueuePayloads, n \in RecordCounts :
              QAddPending(st, p, n)
       \/ \E limit \in 0..MaxLimit : QGetPending(limit)
       \/ \E id \in CallIds : QMarkSynced(id, 0)
       \/ \E id \in CallIds, e \in Errors : QMarkFailed(id, e)
       \/ \E days \in 0..MaxDays : QCleanupOld(days)
    /\ UNCHANGED <<now, config, runVars, agentVars, pc, cycleVars, pushVars>>

NextQueue == QueueCall \/ Tick

SpecQueue == InitQueue /\ [][NextQueue]_vars

---------------------------------------------------------------------------
(* The buffer a previous run of the agent left on disk *)

\* datetime.now().strftime('%Y-%m-%d %H:%M:%S'): the seconds, no fraction
Strftime(t) == <<t \div UsecPerSec>>

\* run_extraction_job: the payload built for chunk idx of total
ChunkPayload(store_id, chunk_data, idx, total, chunk_count, t) ==
    [store_id |-> store_id, data |-> chunk_data, extraction_time |-> Strftime(t),
     agent_version |-> "2.0.0",
     chunk_info |-> [chunk_number |-> idx, total_chunks |-> total,
                     chunk_records |-> chunk_count]]

\* a row buffered at tick t by an earlier cycle and failed rc times since
BufferedRow(i, t, rc) ==
    [PendingRow(Uuid(i), "S1",
                ChunkPayload("S1", ExtractAllData(1, 0, 0, 0), 1, 1, 1, t), 1, t)
     EXCEPT !.retry_count = rc,
            !.last_error = IF rc = 0 THEN None ELSE ErrorMsg(HttpError)]

\* the buffer holding one row per entry of rcs, created in this order, two
\* rows to a tick
BufferOf(rcs) == {BufferedRow(i, i \div 2, rcs[i]) : i \in 1..Len(rcs)}

\* the retry counts of the rows of an initial buffer: every buffer of up to
\* two rows that are fresh, one failure short of the ceiling or abandoned, and
\* the buffers of PendingLimit + 1 rows with only the newest rows, or no
\* row, below the ceiling
InitRetryCounts == {0, AbandonCeiling - 1, AbandonCeiling}
InitBuffers ==
    {<<>>} \cup {<<a>> : a \in InitRetryCounts}
    \cup {<<a, b>> : a \in InitRetryCounts, b \in InitRetryCounts}
    \cup {[i \in 1..(PendingLimit + 1) |-> IF i <= k THEN AbandonCeiling ELSE 0] :
              k \in {0, PendingLimit - 1, PendingLimit}}

---------------------------------------------------------------------------
(* SpecPurge: cleanup_old on the buffers that earlier ticks have left *)

\* what became of the batch enqueued at a tick before the agent started: none
\* was enqueued, it is pending and never failed, it is pending at the retry
\* ceiling, or it was delivered at a later tick
Fates == {"none", "fresh", "abandoned", "delivered"}

\* the pending row of the batch enqueued at tick t
PurgeRow(t, fate) ==
    BufferedRow(t + 1, t, IF fate = "abandoned" THEN AbandonCeiling ELSE 0)

\* the history row of the batch enqueued at tick t and delivered at tick s
PurgeHistoryRow(t, s) == HistoryRow(PurgeRow(t, "delivered"), s - t, s)

InitPurge ==
    /\ \E fate \in [0..(BaseClock - 1) -> Fates] :
         /\ pending = {PurgeRow(t, fate[t]) :
                          t \in {u \in DOMAIN fate : fate[u] \in {"fresh", "abandoned"}}}
         /\ \E late \in SUBSET {u \in DOMAIN fate : fate[u] = "delivered"} :
              history = {PurgeHistoryRow(t, IF t \in late THEN BaseClock ELSE t + 1) :
                            t \in {u \in DOMAIN fate : fate[u] = "delivered"}}
    /\ next_id = BaseClock
    /\ now = BaseClock
    /\ config = DefaultConfig
    /\ sync_errors = 0
    /\ last_sync = None
    /\ pc = "purge"
    /\ data = None
    /\ chunk_size = ChunkSize
    /\ InitLocals

\* cleanup_old(days), called at the clock now
PurgeCall ==
    /\ pc = "purge"
    /\ \E days \in 0..MaxDays :
         LET r == CleanupOld(pending, history, days, now) IN
         /\ pending' = r.pending
         /\ history' = r.history
         /\ oplog' = [op |-> "cleanup_old", id |-> None, arg |-> <<days, now>>,
                      res |-> <<>>, raised |-> FALSE,
                      enq |-> [NoEnq EXCEPT !.pending = pending,
                                            !.history = history]]
    /\ UNCHANGED <<next_id, now, config, runVars, agentVars, pc, cycleVars, pushVars>>

NextPurge == PurgeCall \/ (pc = "purge" /\ Tick)

SpecPurge == InitPurge /\ [][NextPurge]_vars

---------------------------------------------------------------------------
(* SpecDeliver: one push_to_api call against any transport *)

InitDeliver ==
    /\ \E rcs \in {<<>>, <<0>>, <<1>>} :
         /\ pending = BufferOf(rcs)
         /\ next_id = Len(rcs)
    /\ history = {}
    /\ now = BaseClock
    /\ \E n \in 1..MaxAttempts, d \in 1..MaxBaseDelay :
         config = [store_id |-> "S1", retry_attempts |-> n,
                   retry_delay_seconds |-> d]
    /\ sync_errors \in {0, 1}
    /\ last_sync = None
    /\ pc = "deliver_call"
    /\ data = None
    /\ chunk_size = ChunkSize
    /\ InitLocals

\* self.push_to_api(payload, sync_id)
DeliverCall ==
    /\ pc = "deliver_call"
    /\ \E sync_id \in {None, Uuid(1), Uuid(2)} :
         PushEnter(ChunkPayload("S1", ExtractAllData(1, 0, 0, 0), 1, 1, 1, now),
                   sync_id, "deliver_done")
    /\ UNCHANGED <<bufferVars, now, config, runVars, agentVars, cycleVars, oplog>>

NextDeliver == DeliverCall \/ PushAttempt(Responses)

SpecDeliver == InitDeliver /\ [][NextDeliver]_vars

\* the transport answered call i of the running push_to_api with HTTP 200
Answered200(i) == calls[i].resp.kind = "http" /\ calls[i].resp.status_code = 200

C9_ExponentialBackoff ==
    LET n == config.retry_attempts
        failedBeforeLast == {i \in 1..Len(calls) : ~Answered200(i) /\ i < n}
    IN  /\ Len(sleeps) = Cardinality(failedBeforeLast)
        /\ \A k \in 1..Len(sleeps) :
             /\ k \in failedBeforeLast
             /\ sleeps[k] = config.retry_delay_seconds * 2^(k - 1)

\* witness of C9: retry_attempts = 3, retry_delay_seconds = 1, every attempt
\* failed: the sleeps were 1 then 2
C9_Witness ==
    /\ pc = "deliver_done"
    /\ config.retry_attempts = 3
    /\ config.retry_delay_seconds = 1
    /\ ret = <<FALSE>>
    /\ sleeps = <<1, 2>>

---------------------------------------------------------------------------
(* Spec: the agent running sync cycles (SmartAgent.run_extraction_job) *)

\* what the transport may answer in Spec
CycleResponses == {HttpOk, HttpError}

Init ==
    /\ \E rcs \in InitBuffers :
         /\ pending = BufferOf(rcs)
         /\ next_id = Len(rcs)
    /\ history = {}
    /\ now = BaseClock
    /\ config = DefaultConfig
    /\ sync_errors = 0
    /\ last_sync = None
    /\ pc = "idle"
    /\ data = None
    /\ chunk_size = ChunkSize
    /\ InitLocals

\* run_extraction_job is entered; sync_pending reads the pending list and
\* returns at once when it is empty
StartCycle ==
    /\ pc = "idle"
    /\ \E l \in GetPending(pending, PendingLimit) :
         /\ plist' = l
         /\ pc' = IF l = <<>> THEN "extract" ELSE "sp_loop"
    /\ pidx' = 1
    /\ cycle' = [n |-> cycle.n + 1, pre |-> pending, attempts |-> <<>>,
                 skipped |-> <<>>, extracted |-> FALSE, sent |-> <<>>]
    /\ data' = None
    /\ chunks' = <<>>
    /\ cidx' = 0
    /\ UNCHANGED <<bufferVars, now, config, runVars, agentVars, chunk_size, pushVars, oplog>>

\* mutant: an item with too many retries ends the loop (break for continue)
SpSkip_Break ==
    /\ pc = "sp_loop"
    /\ pidx <= Len(plist)
    /\ plist[pidx].retry_count >= AbandonCeiling
    /\ pc' = "extract"
    /\ cycle' = [cycle EXCEPT !.skipped = Append(@, plist[pidx].id)]
    /\ UNCHANGED <<bufferVars, now, config, runVars, agentVars, pidx, plist, data,
                   chunk_size, chunks, cidx, pushVars, oplog>>

\* sync_pending: the item has too many retries and is skipped
SpSkip ==
    /\ pc = "sp_loop"
    /\ pidx <= Len(plist)
    /\ plist[pidx].retry_count >= AbandonCeiling
    /\ pidx' = pidx + 1
    /\ cycle' = [cycle EXCEPT !.skipped = Append(@, plist[pidx].id)]
    /\ UNCHANGED <<bufferVars, now, config, runVars, agentVars, pc, plist, data,
                   chunk_size, chunks, cidx, pushVars, oplog>>

\* mutant: the retry ceiling is not checked before the push
SpPush_NoCeiling ==
    /\ pc = "sp_loop"
    /\ pidx <= Len(plist)
    /\ PushEnter(plist[pidx].payload, plist[pidx].id, "sp_ret")
    /\ UNCHANGED <<bufferVars, now, config, runVars, agentVars, cycleVars, oplog>>

\* sync_pending: push_to_api(item["payload"], sync_id=item["id"])
SpPush ==
    /\ pc = "sp_loop"
    /\ pidx <= Len(plist)
    /\ plist[pidx].retry_count < AbandonCeiling
    /\ PushEnter(plist[pidx].payload, plist[pidx].id, "sp_ret")
    /\ UNCHANGED <<bufferVars, now, config, runVars, agentVars, cycleVars, oplog>>

\* mutant: the loop goes on after a failure (no break)
SpRet_NoBreak ==
    /\ pc = "sp_ret"
    /\ cycle' = [cycle EXCEPT !.attempts =
                     Append(@, [id |-> push.sync_id, ok |-> ret[1]])]
    /\ pidx' = pidx + 1
    /\ pc' = "sp_loop"
    /\ PushLeave
    /\ UNCHANGED <<bufferVars, now, config, runVars, agentVars, plist, data, chunk_size,
                   chunks, cidx, oplog>>

\* sync_pending: push_to_api returned; a failure breaks the loop
SpRet ==
    /\ pc = "sp_ret"
    /\ cycle' = [cycle EXCEPT !.attempts =
                     Append(@, [id |-> push.sync_id, ok |-> ret[1]])]
    /\ IF ret = <<TRUE>>
       THEN pidx' = pidx + 1 /\ pc' = "sp_loop"
       ELSE pidx' = pidx /\ pc' = "extract"
    /\ PushLeave
    /\ UNCHANGED <<bufferVars, now, config, runVars, agentVars, plist, data, chunk_size,
                   chunks, cidx, oplog>>

\* sync_pending: the list is exhausted
SpDone ==
    /\ pc = "sp_loop"
    /\ pidx > Len(plist)
    /\ pc' = "extract"
    /\ UNCHANGED <<bufferVars, now, config, runVars, agentVars, cycleVars, pushVars, oplog>>

\* mutant: the exception of the data source leaves run_extraction_job
ExtractFails_Raises ==
    /\ pc = "extract"
    /\ data' = None
    /\ cycle' = [cycle EXCEPT !.extracted = TRUE]
    /\ pc' = "crashed"
    /\ UNCHANGED <<bufferVars, now, config, runVars, agentVars, plist, pidx, chunk_size,
                   chunks, cidx, pushVars, oplog>>

\* extract_data returns (None, 0): no database path, extract_all_data
\* returned None or raised; run_extraction_job returns
ExtractFails ==
    /\ pc = "extract"
    /\ data' = None
    /\ cycle' = [cycle EXCEPT !.extracted = TRUE]
    /\ pc' = "idle"
    /\ UNCHANGED <<bufferVars, now, config, runVars, agentVars, plist, pidx, chunk_size,
                   chunks, cidx, pushVars, oplog>>

\* mutant: run_extraction_job does not return on an empty result
Extract_NoEmptyCheck ==
    /\ pc = "extract"
    /\ \E n1 \in {0, 1, chunk_size + 1}, n3 \in 0..MaxInvoices :
         LET d == ExtractAllData(n1, 0, n3, 0) IN
         /\ data' = d
         /\ chunks' = ChunkData(d, chunk_size)
         /\ cidx' = 1
         /\ pc' = "ck_loop"
    /\ cycle' = [cycle EXCEPT !.extracted = TRUE]
    /\ UNCHANGED <<bufferVars, now, config, runVars, agentVars, plist, pidx, chunk_size,
                   pushVars, oplog>>

\* extract_data returns (data, total_records); run_extraction_job returns
\* when the total is 0 and chunks the data otherwise. The results drawn hold
\* no, one or chunk_size + 1 orderheaders and up to MaxInvoices
\* account_invoice_erp records.
Extract ==
    /\ pc = "extract"
    /\ \E n1 \in {0, 1, chunk_size + 1}, n3 \in 0..MaxInvoices :
         LET d == ExtractAllData(n1, 0, n3, 0) IN
         /\ data' = d
         /\ IF TotalRecords(d) = 0
            THEN /\ pc' = "idle"
                 /\ UNCHANGED <<chunks, cidx>>
            ELSE /\ chunks' = ChunkData(d, chunk_size)
                 /\ cidx' = 1
                 /\ pc' = "ck_loop"
    /\ cycle' = [cycle EXCEPT !.extracted = TRUE]
    /\ UNCHANGED <<bufferVars, now, config, runVars, agentVars, plist, pidx, chunk_size,
                   pushVars, oplog>>

\* run_extraction_job: the payload of the chunk is built and pushed
CkPush ==
    /\ pc = "ck_loop"
    /\ cidx <= Len(chunks)
    /\ PushEnter(ChunkPayload(config.store_id, chunks[cidx][1], cidx,
                              Len(chunks), chunks[cidx][2], now),
                 None, "ck_ret")
    /\ UNCHANGED <<bufferVars, now, config, runVars, agentVars, cycleVars, oplog>>

\* mutant: a failed chunk is buffered and ends the loop over the chunks
CkRet_BreakOnFailure ==
    /\ pc = "ck_ret"
    /\ IF ret = <<TRUE>>
       THEN /\ cidx' = cidx + 1
            /\ UNCHANGED <<pending, next_id>>
       ELSE /\ pending' = AddPending(pending, Uuid(next_id + 1), config.store_id,
                                     push.payload, chunks[cidx][2], now)
            /\ next_id' = next_id + 1
            /\ cidx' = Len(chunks) + 1
    /\ cycle' = [cycle EXCEPT !.sent =
                     Append(@, [chunk |-> cidx, ok |-> ret[1]])]
    /\ pc' = "ck_loop"
    /\ PushLeave
    /\ UNCHANGED <<history, now, config, runVars, agentVars, plist, pidx, data,
                   chunk_size, chunks, oplog>>

\* run_extraction_job: push_to_api returned; a failed chunk is buffered
CkRet ==
    /\ pc = "ck_ret"
    /\ IF ret = <<TRUE>>
       THEN UNCHANGED <<pending, next_id>>
       ELSE /\ pending' = AddPending(pending, Uuid(next_id + 1), config.store_id,
                                     push.payload, chunks[cidx][2], now)
            /\ next_id' = next_id + 1
    /\ cycle' = [cycle EXCEPT !.sent =
                     Append(@, [chunk |-> cidx, ok |-> ret[1]])]
    /\ cidx' = cidx + 1
    /\ pc' = "ck_loop"
    /\ PushLeave
    /\ UNCHANGED <<history, now, config, runVars, agentVars, plist, pidx, data,
                   chunk_size, chunks, oplog>>

\* run_extraction_job: every chunk was processed
CkDone ==
    /\ pc = "ck_loop"
    /\ cidx > Len(chunks)
    /\ pc' = "idle"
    /\ UNCHANGED <<bufferVars, now, config, runVars, agentVars, cycleVars, pushVars, oplog>>

Next ==
    \/ (cycle.n < MaxCycles /\ StartCycle)
    \/ SpSkip
    \/ SpPush
    \/ SpRet
    \/ SpDone
    \/ ExtractFails
    \/ Extract
    \/ CkPush
    \/ CkRet
    \/ CkDone
    \/ PushAttempt(CycleResponses)

Spec == Init /\ [][Next]_vars

---------------------------------------------------------------------------
(* SpecLive: sync cycles run for ever against a transport that answers 200 *)

\* run(): the scheduler calls run_extraction_job again; what the model has
\* recorded of the cycles so far is dropped
NextTick ==
    /\ pc = "idle"
    /\ cycle.n = MaxCycles
    /\ cycle' = NoCycle
    /\ UNCHANGED <<bufferVars, now, config, runVars, agentVars, pc, plist, pidx, data,
                   chunk_size, chunks, cidx, pushVars, oplog>>

\* cycles without a purge, the data source returning nothing and the
\* transport answering every call with HTTP 200
NextLive ==
    \/ (cycle.n < MaxCycles /\ StartCycle)
    \/ SpSkip
    \/ SpPush
    \/ SpRet
    \/ SpDone
    \/ ExtractFails
    \/ PushAttempt({HttpOk})
    \/ NextTick

\* the scheduler keeps running cycles and every call returns
SpecLive == Init /\ [][NextLive]_vars /\ WF_vars(NextLive)

---------------------------------------------------------------------------
(* The heartbeat: SmartAgent.send_heartbeat *)

\* get_stats: the pending counts
GetStats(P) ==
    [pending_batches |-> Cardinality({r \in P : r.status = "pending"}),
     pending_records |->
         SumOver([r \in {q \in P : q.status = "pending"} |-> r.record_count],
                 {q \in P : q.status = "pending"})]

\* the payload send_heartbeat builds, without its 24-hour count and uptime
HeartbeatPayload(stats, t) ==
    [store_id |-> config.store_id, agent_version |-> "2.0.0",
     timestamp |-> Isoformat(t),
     status |-> IF sync_errors < 3 THEN "healthy" ELSE "degraded",
     last_sync |-> last_sync, pending_records |-> stats.pending_records]

\* mutant: a heartbeat that was not answered 200 counts as a sync error
SendHeartbeat_CountsFailure(stats_ok, resp) ==
    /\ hb' = IF ~stats_ok
             THEN [hb EXCEPT !.calls = <<>>, !.raised = FALSE]
             ELSE [last_heartbeat |->
                       IF resp.kind = "http" /\ resp.status_code = 200
                       THEN Isoformat(now) ELSE hb.last_heartbeat,
                   calls |-> <<[payload |-> HeartbeatPayload(GetStats(pending), now),
                                resp |-> resp]>>,
                   raised |-> FALSE]
    /\ sync_errors' = IF stats_ok /\ resp.kind = "http" /\ resp.status_code = 200
                      THEN sync_errors ELSE sync_errors + 1
    /\ UNCHANGED <<bufferVars, now, config, last_sync, pc, cycleVars, pushVars, oplog>>

\* send_heartbeat from entry to return: get_stats either answers or raises
\* sqlite3.Error; one requests.post follows when it answered; every
\* exception is caught by the except clause of send_heartbeat
SendHeartbeat(stats_ok, resp) ==
    /\ hb' = IF ~stats_ok
             THEN [hb EXCEPT !.calls = <<>>, !.raised = FALSE]
             ELSE [last_heartbeat |->
                       IF resp.kind = "http" /\ resp.status_code = 200
                       THEN Isoformat(now) ELSE hb.last_heartbeat,
                   calls |-> <<[payload |-> HeartbeatPayload(GetStats(pending), now),
                                resp |-> resp]>>,
                   raised |-> FALSE]
    /\ UNCHANGED <<bufferVars, now, config, agentVars, pc, cycleVars, pushVars, oplog>>

---------------------------------------------------------------------------
(* SpecRun: SmartAgent.run, the jobs of the schedule module in one thread *)

Jobs == <<"extraction", "heartbeat", "cleanup">>

\* schedule.every(n).minutes / .days: the period of a job in ticks
Interval(job) ==
    CASE job = "extraction" -> ExtractionInterval
      [] job = "heartbeat" -> HeartbeatInterval
      [] job = "cleanup" -> TicksPerDay

\* Job._schedule_next_run after the job has run: the period counts from now
Reschedule(next_run, job, t) == [next_run EXCEPT ![job] = t + Interval(job)]

\* Job.should_run
Due(job) == sched.next_run[job] <= now

\* sorted(runnable_jobs): by next_run, jobs of equal next_run in the order
\* they were scheduled
RECURSIVE SortedJobs(_)
SortedJobs(J) ==
    IF J = {} THEN <<>>
    ELSE LET first == CHOOSE i \in J :
                          \A k \in J : \/ sched.next_run[Jobs[i]] < sched.next_run[Jobs[k]]
                                       \/ /\ sched.next_run[Jobs[i]] = sched.next_run[Jobs[k]]
                                          /\ i <= k
         IN  <<Jobs[first]>> \o SortedJobs(J \ {first})

\* a row an earlier run buffered so long ago that the first cleanup job of
\* this run finds it older than MAX_BUFFER_AGE_DAYS
OldRow(rc) ==
    BufferedRow(1, BaseClock - (MaxBufferAgeDays - 1) * TicksPerDay - 1, rc)

\* the buffers run() may find: empty, or one row, recent or old, never
\* failed or at the retry ceiling
RunBuffers ==
    {BufferOf(rcs) : rcs \in {<<>>, <<0>>, <<AbandonCeiling>>}}
        \cup {{OldRow(rc)} : rc \in {0, AbandonCeiling}}

\* run() has scheduled its three jobs and is about to run the first
\* extraction itself
InitRun ==
    /\ \E b \in RunBuffers :
         /\ pending = b
         /\ next_id = Cardinality(b)
    /\ history = {}
    /\ now = BaseClock
    /\ config = DefaultConfig
    /\ sync_errors = 0
    /\ last_sync = None
    /\ pc = "idle"
    /\ data = None
    /\ chunk_size = ChunkSize
    /\ plist = <<>>
    /\ pidx = 0
    /\ chunks = <<>>
    /\ cidx = 0
    /\ push = NoPush
    /\ calls = <<>>
    /\ sleeps = <<>>
    /\ ret = <<>>
    /\ oplog = NoOp
    /\ cycle = NoCycle
    /\ sched = [next_run |-> [extraction |-> BaseClock + ExtractionInterval,
                              heartbeat |-> BaseClock + HeartbeatInterval,
                              cleanup |-> BaseClock + TicksPerDay],
                at |-> "initial", queue |-> <<>>, job |-> "none", ncycle |-> 0]
    /\ hb = NoHeartbeat
    /\ runlog = <<>>
    /\ conn = NoConn

\* Job.run / run(): job_func is about to be called; a run_extraction_job
\* call is logged with the clock and the next_run that made it due
EnterJob(job, tick) ==
    /\ sched' = [sched EXCEPT !.at = "job", !.job = job,
                              !.queue = IF @ = <<>> THEN @ ELSE Tail(@),
                              !.ncycle = IF job = "extraction" THEN cycle.n + 1 ELSE @]
    /\ runlog' = IF job = "extraction"
                 THEN Append(runlog, [start |-> now, end |-> None, tick |-> tick,
                                      failed |-> FALSE])
                 ELSE runlog

\* run(): the initial self.run_extraction_job() is called
RunInitialExtraction ==
    /\ pc = "idle"
    /\ sched.at = "initial"
    /\ EnterJob("extraction", None)
    /\ UNCHANGED <<bufferVars, now, config, agentVars, pc, cycleVars, pushVars,
                   oplog, conn, hb>>

\* run_extraction_job is entered by the job that was called
RunStartCycle ==
    /\ sched.at = "job"
    /\ sched.job = "extraction"
    /\ cycle.n < sched.ncycle
    /\ StartCycle

\* run_extraction_job has returned: to run(), which goes on to the initial
\* heartbeat, or to Job.run, which schedules the next run
ExtractionReturns ==
    /\ pc = "idle"
    /\ sched.at = "job"
    /\ sched.job = "extraction"
    /\ cycle.n = sched.ncycle
    /\ runlog' = [runlog EXCEPT ![Len(runlog)].end = <<now>>,
                                ![Len(runlog)].failed = (data = None)]
    /\ sched' = IF runlog[Len(runlog)].tick = None
                THEN [sched EXCEPT !.at = "initial_heartbeat", !.job = "none"]
                ELSE [sched EXCEPT !.at = "pending", !.job = "none",
                                   !.next_run = Reschedule(@, "extraction", now)]
    /\ UNCHANGED <<bufferVars, now, config, agentVars, pc, cycleVars, pushVars,
                   oplog, conn, hb>>

\* run(): the initial self.send_heartbeat(), then the main loop is entered
RunInitialHeartbeat ==
    /\ pc = "idle"
    /\ sched.at = "initial_heartbeat"
    /\ \E stats_ok \in BOOLEAN, resp \in Responses : SendHeartbeat(stats_ok, resp)
    /\ sched' = [sched EXCEPT !.at = "loop"]
    /\ UNCHANGED <<conn, runlog>>

\* schedule.run_pending: the jobs that are due, sorted
RunPending ==
    /\ pc = "idle"
    /\ sched.at = "loop"
    /\ sched' = [sched EXCEPT !.at = "pending",
                              !.queue = SortedJobs({i \in 1..Len(Jobs) : Due(Jobs[i])})]
    /\ UNCHANGED <<bufferVars, now, config, agentVars, pc, cycleVars, pushVars,
                   oplog, conn, hb, runlog>>

\* schedule.run_pending: the next due job is run
RunJob ==
    /\ pc = "idle"
    /\ sched.at = "pending"
    /\ sched.queue # <<>>
    /\ EnterJob(Head(sched.queue), <<sched.next_run[Head(sched.queue)]>>)
    /\ UNCHANGED <<bufferVars, now, config, agentVars, pc, cycleVars, pushVars,
                   oplog, conn, hb>>

\* the heartbeat job: send_heartbeat, then Job.run schedules the next run
RunHeartbeat ==
    /\ pc = "idle"
    /\ sched.at = "job"
    /\ sched.job = "heartbeat"
    /\ \E stats_ok \in BOOLEAN, resp \in Responses : SendHeartbeat(stats_ok, resp)
    /\ sched' = [sched EXCEPT !.at = "pending", !.job = "none",
                              !.next_run = Reschedule(@, "heartbeat", now)]
    /\ UNCHANGED <<conn, runlog>>

\* the cleanup job: self.buffer.cleanup_old(), then Job.run schedules the
\* next run
RunCleanup ==
    /\ pc = "idle"
    /\ sched.at = "job"
    /\ sched.job = "cleanup"
    /\ LET r == CleanupOld(pending, history, MaxBufferAgeDays, now) IN
         /\ pending' = r.pending
         /\ history' = r.history
    /\ sched' = [sched EXCEPT !.at = "pending", !.job = "none",
                              !.next_run = Reschedule(@, "cleanup", now)]
    /\ UNCHANGED <<next_id, now, config, agentVars, pc, cycleVars, pushVars,
                   oplog, conn, hb, runlog>>

\* the main loop: every due job has run, time.sleep(1)
Sleep ==
    /\ pc = "idle"
    /\ sched.at = "pending"
    /\ sched.queue = <<>>
    /\ now < BaseClock + MaxRunClock
    /\ now' = now + 1
    /\ sched' = [sched EXCEPT !.at = "loop"]
    /\ UNCHANGED <<bufferVars, config, agentVars, pc, cycleVars, pushVars,
                   oplog, conn, hb, runlog>>

NextRun ==
    \/ RunInitialExtraction
    \/ RunStartCycle
    \/ SpSkip
    \/ SpPush
    \/ SpRet
    \/ SpDone
    \/ ExtractFails
    \/ Extract
    \/ CkPush
    \/ CkRet
    \/ CkDone
    \/ PushAttempt(CycleResponses)
    \/ ExtractionReturns
    \/ RunInitialHeartbeat
    \/ RunPending
    \/ RunJob
    \/ RunHeartbeat
    \/ RunCleanup
    \/ Sleep

SpecRun == InitRun /\ [][NextRun]_vars

\* KeyboardInterrupt (Ctrl+C) is raised in the main thread, wherever it is:
\* it leaves push_to_api, run_extraction_job and run(), and the process ends
KeyboardInterrupt ==
    /\ pc # "stopped"
    /\ pc' = "stopped"
    /\ UNCHANGED <<bufferVars, now, config, runVars, agentVars, cycleVars,
                   pushVars, oplog>>

NextStop == NextRun \/ KeyboardInterrupt

\* SmartAgent.run with the operator's Ctrl+C
SpecStop == InitRun /\ [][NextStop]_vars

---------------------------------------------------------------------------
(* SpecFault: SmartAgent.run on a buffer whose storage may fail *)

\* the record of a SyncBuffer operation that raised sqlite3.Error before its
\* commit: the tables are as they were
Raised(op, id) ==
    [op |-> op, id |-> id, arg |-> None, res |-> <<>>, raised |-> TRUE,
     enq |-> NoEnq]

\* mutant: the exception of add_pending is caught and the loop over the
\* chunks goes on
AddPendingRaises_Swallowed ==
    /\ pc = "ck_ret"
    /\ ret = <<FALSE>>
    /\ oplog' = Raised("add_pending", None)
    /\ cycle' = [cycle EXCEPT !.sent =
                     Append(@, [chunk |-> cidx, ok |-> ret[1]])]
    /\ cidx' = cidx + 1
    /\ pc' = "ck_loop"
    /\ PushLeave
    /\ UNCHANGED <<bufferVars, now, config, runVars, agentVars, plist, pidx, data,
                   chunk_size, chunks>>

\* run_extraction_job: add_pending raises for a failed chunk. Nothing catches
\* it in run_extraction_job, in Job.run, in run_pending or in run(); __main__
\* logs it and raises it again.
AddPendingRaises ==
    /\ pc = "ck_ret"
    /\ ret = <<FALSE>>
    /\ oplog' = Raised("add_pending", None)
    /\ pc' = "crashed"
    /\ UNCHANGED <<bufferVars, now, config, runVars, agentVars, cycleVars, pushVars>>

\* push_to_api: the transport answered HTTP 200 and mark_synced raises; the
\* except clause of the loop catches RequestException only
MarkSyncedRaises ==
    /\ pc = "push"
    /\ push.sync_id # None
    /\ calls' = Append(calls, [attempt |-> push.attempt,
                               payload |-> push.payload, resp |-> HttpOk])
    /\ now' = now + 1
    /\ oplog' = Raised("mark_synced", push.sync_id)
    /\ pc' = "crashed"
    /\ UNCHANGED <<bufferVars, config, runVars, agentVars, cycleVars, push, sleeps, ret>>

\* push_to_api: the last attempt failed, sync_errors was incremented and
\* mark_failed raises
MarkFailedRaises ==
    /\ pc = "push"
    /\ push.sync_id # None
    /\ push.attempt >= config.retry_attempts
    /\ \E resp \in CycleResponses \ {HttpOk} :
         /\ calls' = Append(calls, [attempt |-> push.attempt,
                                    payload |-> push.payload, resp |-> resp])
         /\ push' = [push EXCEPT !.error_msg = ErrorMsg(resp)]
    /\ sync_errors' = sync_errors + 1
    /\ now' = now + 1
    /\ oplog' = Raised("mark_failed", push.sync_id)
    /\ pc' = "crashed"
    /\ UNCHANGED <<bufferVars, config, runVars, last_sync, cycleVars, sleeps, ret>>

\* the cleanup job: cleanup_old raises. Job.run and run_pending catch
\* nothing, and the main loop of run() has no try.
CleanupRaises ==
    /\ pc = "idle"
    /\ sched.at = "job"
    /\ sched.job = "cleanup"
    /\ oplog' = Raised("cleanup_old", None)
    /\ pc' = "crashed"
    /\ UNCHANGED <<bufferVars, now, config, runVars, agentVars, cycleVars, pushVars>>

NextFault ==
    \/ NextRun
    \/ AddPendingRaises
    \/ MarkSyncedRaises
    \/ MarkFailedRaises
    \/ CleanupRaises

SpecFault == InitRun /\ [][NextFault]_vars

---------------------------------------------------------------------------
(* SpecConc: two callers of one buffer file, statement by statement.       *)
(* Every SyncBuffer method opens its own connection; a SELECT runs in      *)
(* autocommit mode, the sqlite3 module begins a transaction before the     *)
(* first INSERT, UPDATE or DELETE, and what the transaction wrote is seen  *)
(* by the other connections at its commit.                                 *)

Callers == {1, 2}

\* datetime('now', '-24 hours') of SQLite: whole seconds, no fraction
SqlDatetime(t) == <<(t - TicksPerDay) \div UsecPerSec>>

\* get_stats: the second SELECT, over sync_history
Synced24h(H, t) ==
    LET rows == {h \in H : TextLess(SqlDatetime(t), h.synced_at)} IN
    [synced_24h_batches |-> Cardinality(rows),
     synced_24h_records |-> SumOver([h \in rows |-> h.record_count], rows)]

\* the dict get_stats returns from the results of its two SELECTs
StatsDict(p, h) ==
    [pending_batches |-> p.pending_batches, pending_records |-> p.pending_records,
     synced_24h_batches |-> h.synced_24h_batches,
     synced_24h_records |-> h.synced_24h_records]

\* the statistics of the committed tables P, H
StatsOf(P, H, t) == StatsDict(GetStats(P), Synced24h(H, t))

\* a commit has made the tables P, H: they are one more state a running
\* get_stats call could report
Observe(cn, P, H) ==
    [c \in DOMAIN cn |->
        IF cn[c].op = "get_stats" /\ cn[c].at # "done"
        THEN [cn[c] EXCEPT !.snaps = @ \cup {StatsOf(P, H, now)}]
        ELSE cn[c]]

\* mark_synced after its SELECT returned the rows row: the INSERT, which
\* fails on a history row with the same primary key, the DELETE, the commit
MarkSyncedWrite(P, H, row, sync_id, duration, t) ==
    IF row = {}
    THEN [pending |-> P, history |-> H, raised |-> FALSE]
    ELSE IF sync_id \in Ids(H)
    THEN [pending |-> P, history |-> H, raised |-> TRUE]
    ELSE [pending |-> {r \in P : r.id # sync_id},
          history |-> H \cup {HistoryRow(r, duration, t) : r \in row},
          raised |-> FALSE]

\* the buffers the callers find: empty, or one row that never failed,
\* buffered a tick ago or more than MAX_BUFFER_AGE_DAYS ago
ConcBuffers ==
    {{}, {BufferedRow(1, BaseClock - 1, 0)},
     {BufferedRow(1, BaseClock - MaxBufferAgeDays * TicksPerDay - 1, 0)}}

InitConc ==
    /\ \E b \in ConcBuffers :
         /\ pending = b
         /\ next_id = Cardinality(b)
    /\ history = {}
    /\ now = BaseClock
    /\ config = DefaultConfig
    /\ sync_errors = 0
    /\ last_sync = None
    /\ pc = "conc"
    /\ data = None
    /\ chunk_size = ChunkSize
    /\ InitLocals

\* what a call of a concurrent caller leaves alone
ConcFrame ==
    /\ pc = "conc"
    /\ UNCHANGED <<now, config, sched, hb, runlog, agentVars, pc, cycleVars,
                   pushVars, oplog>>

\* add_pending: one INSERT and its commit
CAddPending(c) ==
    /\ ConcFrame
    /\ conn[c] = Idle
    /\ next_id < MaxIds
    /\ next_id' = next_id + 1
    /\ pending' = AddPending(pending, Uuid(next_id + 1), "S1",
                             ChunkPayload("S1", ExtractAllData(1, 0, 0, 0), 1, 1, 1, now),
                             1, now)
    /\ conn' = Observe(conn, pending', history)
    /\ UNCHANGED history

\* get_pending: one SELECT
CGetPending(c) ==
    /\ ConcFrame
    /\ conn[c] = Idle
    /\ \E res \in GetPending(pending, PendingLimit) :
         conn' = [conn EXCEPT ![c] = [Idle EXCEPT !.op = "get_pending",
                                                  !.at = "done", !.res = res]]
    /\ UNCHANGED <<pending, history, next_id>>

\* mark_synced: the SELECT of the row
CMarkSyncedSelect(c, sync_id) ==
    /\ ConcFrame
    /\ conn[c] = Idle
    /\ conn' = [conn EXCEPT ![c] = [Idle EXCEPT !.op = "mark_synced",
                                                !.at = "selected", !.id = sync_id,
                                                !.row = {r \in pending : r.id = sync_id}]]
    /\ UNCHANGED <<pending, history, next_id>>

\* mark_synced: INSERT, DELETE and commit, or the IntegrityError of the INSERT
CMarkSyncedCommit(c) ==
    /\ ConcFrame
    /\ conn[c].op = "mark_synced"
    /\ conn[c].at = "selected"
    /\ LET r == MarkSyncedWrite(pending, history, conn[c].row, conn[c].id, 0, now) IN
         /\ pending' = r.pending
         /\ history' = r.history
         /\ conn' = Observe([conn EXCEPT ![c].at = "done", ![c].raised = r.raised],
                            r.pending, r.history)
    /\ UNCHANGED next_id

\* mark_failed: one UPDATE and its commit
CMarkFailed(c, sync_id) ==
    /\ ConcFrame
    /\ conn[c] = Idle
    /\ \E r \in pending : r.id = sync_id /\ r.retry_count < MaxRetryCount
    /\ pending' = MarkFailed(pending, sync_id, ErrorMsg(HttpError))
    /\ conn' = Observe(conn, pending', history)
    /\ UNCHANGED <<history, next_id>>

\* get_stats: the SELECT over pending_sync
CGetStatsPending(c) ==
    /\ ConcFrame
    /\ conn[c] = Idle
    /\ conn' = [conn EXCEPT ![c] = [Idle EXCEPT !.op = "get_stats",
                                                !.at = "pending_read",
                                                !.res = GetStats(pending),
                                                !.snaps = {StatsOf(pending, history, now)}]]
    /\ UNCHANGED <<pending, history, next_id>>

\* get_stats: the SELECT over sync_history, and the dict is returned
CGetStatsHistory(c) ==
    /\ ConcFrame
    /\ conn[c].op = "get_stats"
    /\ conn[c].at = "pending_read"
    /\ conn' = [conn EXCEPT ![c].at = "done",
                            ![c].res = StatsDict(@, Synced24h(history, now))]
    /\ UNCHANGED <<pending, history, next_id>>

\* cleanup_old: the two DELETEs and their commit
CCleanupOld(c) ==
    /\ ConcFrame
    /\ conn[c] = Idle
    /\ LET r == CleanupOld(pending, history, MaxBufferAgeDays, now) IN
         /\ pending' = r.pending
         /\ history' = r.history
         /\ conn' = Observe(conn, r.pending, r.history)
    /\ UNCHANGED next_id

\* the call has returned, or raised, to its caller
CReturn(c) ==
    /\ ConcFrame
    /\ conn[c].at = "done"
    /\ conn' = [conn EXCEPT ![c] = Idle]
    /\ UNCHANGED <<pending, history, next_id>>

NextConc ==
    \/ \E c \in Callers : CAddPending(c)
    \/ \E c \in Callers : CGetPending(c)
    \/ \E c \in Callers, id \in CallIds : CMarkSyncedSelect(c, id)
    \/ \E c \in Callers : CMarkSyncedCommit(c)
    \/ \E c \in Callers, id \in CallIds : CMarkFailed(c, id)
    \/ \E c \in Callers : CGetStatsPending(c)
    \/ \E c \in Callers : CGetStatsHistory(c)
    \/ \E c \in Callers : CCleanupOld(c)
    \/ \E c \in Callers : CReturn(c)

SpecConc == InitConc /\ [][NextConc]_vars

---------------------------------------------------------------------------
(* Claims on the durable queue, under SpecQueue *)

\* C4: add_pending followed by mark_synced on the returned id leaves the id
\* out of every get_pending list and adds exactly one history row with the
\* id, store_id and record_count of the batch; the other pending rows and
\* history rows are as they were before the add_pending.
C4_EnqueueThenDelivered ==
    (oplog.op = "mark_synced" /\ oplog.enq.id # None /\ oplog.id = oplog.enq.id)
        => /\ ~oplog.raised
           /\ \A limit \in 0..(MaxIds + 1) : \A l \in GetPending(pending, limit) :
                  \A i \in 1..Len(l) : l[i].id # oplog.id
           /\ pending = oplog.enq.pending
           /\ \E h \in history :
                  /\ h.id = oplog.id
                  /\ h.store_id = oplog.enq.store_id
                  /\ h.record_count = oplog.enq.record_count
                  /\ h \notin oplog.enq.history
                  /\ history = oplog.enq.history \cup {h}
           /\ Cardinality({h \in history : h.id = oplog.id}) = 1

\* witness of C4: a batch was enqueued and marked delivered while another
\* batch was pending
C4_Witness ==
    /\ oplog.op = "mark_synced"
    /\ oplog.enq.id # None
    /\ oplog.id = oplog.enq.id
    /\ oplog.enq.pending # {}
    /\ oplog.id \in Ids(history)

\* C5: mark_synced with an id that is not pending (unknown, or delivered by an
\* earlier call) raises nothing and changes neither table, so a second call
\* for an id changes nothing after the first.
C5_MarkSyncedIdempotent ==
    [][\A id \in CallIds :
          (pc = "queue" /\ QMarkSynced(id, 0))
              => /\ id \notin Ids(pending) =>
                     (pending' = pending /\ history' = history /\ ~oplog'.raised)
                 /\ id \notin Ids(pending')
                 /\ LET again == MarkSynced(pending', history', id, 0, now') IN
                        /\ again.pending = pending'
                        /\ again.history = history'
                        /\ ~again.raised]_vars

\* witness of C5: mark_synced was called for an id delivered before, while
\* another batch was pending
C5_Witness ==
    /\ oplog.op = "mark_synced"
    /\ oplog.id \in Ids(history)
    /\ oplog.enq.id = None
    /\ LastEnqueue = NoEnq
    /\ pending # {}
    /\ \E h \in history : h.id = oplog.id /\ TextLess(h.synced_at, Isoformat(now))

\* C6: mark_failed on a pending id adds exactly 1 to the retry_count of that
\* batch and overwrites its last_error; every other batch and the history
\* stay as they are; on an unknown id nothing changes and no row is created.
C6_MarkFailedFrame ==
    [][\A id \in CallIds, e \in Errors :
          (pc = "queue" /\ QMarkFailed(id, e))
              => /\ history' = history
                 /\ Ids(pending') = Ids(pending)
                 /\ Cardinality(pending') = Cardinality(pending)
                 /\ \A r \in pending :
                        IF r.id = id
                        THEN [r EXCEPT !.retry_count = r.retry_count + 1,
                                       !.last_error = e] \in pending'
                        ELSE r \in pending'
                 /\ id \notin Ids(pending) => pending' = pending
                 /\ ~oplog'.raised]_vars

\* witness of C6: mark_failed has failed one batch a second time, its
\* last_error is the error passed, and a second batch is pending, never failed
C6_Witness ==
    /\ oplog.op = "mark_failed"
    /\ \E r \in pending :
         /\ r.id = oplog.id
         /\ r.retry_count = 2
         /\ r.last_error = oplog.arg
    /\ \E r \in pending : r.id # oplog.id /\ r.retry_count = 0

---------------------------------------------------------------------------
(* Claims on the sync cycle, under Spec *)

\* the tick a created_at text stands for
IsoTime(txt) == txt[1] * UsecPerSec + (IF Len(txt) > 1 THEN txt[2] ELSE 0)

\* the tick at which the row of P with this id was created
CreatedTick(P, id) == IsoTime((CHOOSE r \in P : r.id = id).created_at)

\* l lists the Min(limit, number of rows) oldest rows of P, oldest first
OldestFirst(l, P, limit) ==
    /\ Len(l) = Min(limit, Cardinality(P))
    /\ \A i \in 1..Len(l) : \E r \in P : l[i] = PendingItem(r)
    /\ \A i, j \in 1..Len(l) :
         i < j => /\ l[i].id # l[j].id
                  /\ CreatedTick(P, l[i].id) <= CreatedTick(P, l[j].id)
    /\ \A r \in P :
         (\A i \in 1..Len(l) : l[i].id # r.id)
             => \A i \in 1..Len(l) : CreatedTick(P, l[i].id) <= IsoTime(r.created_at)

\* the position of the item with this id in plist
Position(id) == CHOOSE i \in 1..Len(plist) : plist[i].id = id

\* the ids sync_pending has passed to push_to_api in this cycle, in order
Attempted ==
    [i \in 1..Len(cycle.attempts) |-> cycle.attempts[i].id]
    \o (IF pc \in {"push", "sp_ret"} /\ push.caller = "sp_ret"
        THEN <<push.sync_id>> ELSE <<>>)

\* C7: get_pending(limit) returns the min(limit, number pending) oldest
\* pending batches in non-decreasing created_at order, and sync_pending
\* attempts the batches of its list in that order.
C7_OldestFirst ==
    /\ \A limit \in (0..MaxLimit) \cup {PendingLimit} :
         \A l \in GetPending(pending, limit) : OldestFirst(l, pending, limit)
    /\ cycle.n > 0 =>
         /\ OldestFirst(plist, cycle.pre, PendingLimit)
         /\ \A i \in 1..Len(Attempted) :
              \E k \in 1..Len(plist) : plist[k].id = Attempted[i]
         /\ \A i, j \in 1..Len(Attempted) :
              i < j => /\ Position(Attempted[i]) < Position(Attempted[j])
                       /\ CreatedTick(cycle.pre, Attempted[i])
                              <= CreatedTick(cycle.pre, Attempted[j])

\* witness of C7: more batches were pending than the limit, the list holds
\* the limit, and three of them have been attempted, created at three
\* different ticks
C7_Witness ==
    /\ Cardinality(cycle.pre) > PendingLimit
    /\ Len(plist) = PendingLimit
    /\ Len(cycle.attempts) >= 3
    /\ CreatedTick(cycle.pre, cycle.attempts[1].id)
           < CreatedTick(cycle.pre, cycle.attempts[3].id)

\* an attempt of the redelivery phase of this cycle has failed
RedeliveryFailed ==
    \E i \in 1..Len(cycle.attempts) : ~cycle.attempts[i].ok

\* C10: when a redelivery attempt of the cycle fails, the retry_count of that
\* batch is one more than at the start of the cycle, no further batch is
\* attempted and every batch not attempted is still pending exactly as it
\* was, and the cycle goes on to the extraction phase.
C10_FailureStopsRedelivery ==
    RedeliveryFailed =>
        LET n == Len(cycle.attempts)
            failed == cycle.attempts[n].id
            before == CHOOSE r \in cycle.pre : r.id = failed
        IN  /\ \A i \in 1..(n - 1) : cycle.attempts[i].ok
            /\ ~cycle.attempts[n].ok
            /\ \E r \in pending :
                 /\ r.id = failed
                 /\ r.retry_count = before.retry_count + 1
                 /\ [r EXCEPT !.retry_count = before.retry_count,
                              !.last_error = before.last_error] = before
            /\ \A r \in cycle.pre :
                 (\A i \in 1..n : cycle.attempts[i].id # r.id) => r \in pending
            /\ pc \notin {"sp_loop", "sp_ret"}
            /\ ~(pc = "push" /\ push.caller = "sp_ret")
            /\ pc = "extract" \/ cycle.extracted

\* witness of C10: the oldest batch below the ceiling failed, a later batch
\* below the ceiling was pending too, and the cycle has run its extraction
C10_Witness ==
    /\ Len(cycle.attempts) = 1
    /\ ~cycle.attempts[1].ok
    /\ \E r \in cycle.pre :
         /\ r.id # cycle.attempts[1].id
         /\ r.retry_count < AbandonCeiling
         /\ CreatedTick(cycle.pre, cycle.attempts[1].id) < IsoTime(r.created_at)
    /\ cycle.extracted
    /\ chunks # <<>>
    /\ pc = "idle"

\* C11: when extract_data returns a result of zero total records the cycle is
\* over: run_extraction_job has returned, nothing was chunked, no push_to_api
\* call was made for the result and no batch was enqueued.
C11_EmptyExtractionEndsCycle ==
    (cycle.extracted /\ data # None /\ TotalRecords(data) = 0)
        => /\ pc = "idle"
           /\ chunks = <<>>
           /\ cidx = 0
           /\ cycle.sent = <<>>
           /\ push = NoPush
           /\ calls = <<>>
           /\ Ids(pending) \subseteq Ids(cycle.pre)

\* witness of C11: after a redelivery attempt the extraction returned a
\* result of zero records and the cycle has ended
C11_Witness ==
    /\ cycle.extracted
    /\ data = ExtractAllData(0, 0, 0, 0)
    /\ Len(cycle.attempts) >= 1
    /\ pc = "idle"

\* the pending rows enqueued since the cycle started
Enqueued == {r \in pending : r.id \notin Ids(cycle.pre)}

\* the rows enqueued in this cycle that carry chunk i of the extraction
EnqueuedFor(i) ==
    {r \in Enqueued :
        /\ JsonLoads(r.payload).chunk_info.chunk_number = i
        /\ JsonLoads(r.payload).chunk_info.total_chunks = Len(chunks)
        /\ JsonLoads(r.payload).chunk_info.chunk_records = chunks[i][2]
        /\ JsonLoads(r.payload).data = chunks[i][1]
        /\ JsonLoads(r.payload).store_id = config.store_id
        /\ r.store_id = config.store_id
        /\ r.record_count = chunks[i][2]
        /\ r.retry_count = 0}

\* C13: the chunks of an extraction are passed to push_to_api in the order
\* _chunk_data returned them, each one whatever the earlier ones did; a chunk
\* that was delivered is not enqueued, a chunk that failed is enqueued once
\* with its payload and record count, and when run_extraction_job returns
\* every chunk has been processed.
C13_EveryChunkDeliveredOrEnqueued ==
    cycle.n > 0 =>
    /\ Len(cycle.sent) <= Len(chunks)
    /\ \A i \in 1..Len(cycle.sent) :
         /\ cycle.sent[i].chunk = i
         /\ Cardinality(EnqueuedFor(i)) = IF cycle.sent[i].ok THEN 0 ELSE 1
    /\ Cardinality(Enqueued)
           = Cardinality({i \in 1..Len(cycle.sent) : ~cycle.sent[i].ok})
    /\ (pc \in {"ck_loop", "ck_ret"} \/ (pc = "push" /\ push.caller = "ck_ret"))
           => /\ cidx = Len(cycle.sent) + 1
              /\ pc # "ck_loop" => cidx <= Len(chunks)
    /\ (pc = "push" /\ push.caller = "ck_ret")
           => /\ push.sync_id = None
              /\ push.payload.data = chunks[cidx][1]
              /\ push.payload.chunk_info.chunk_number = cidx
    /\ (pc = "idle" /\ chunks # <<>>) => Len(cycle.sent) = Len(chunks)

\* witness of C13: the first of two chunks failed and was enqueued, the
\* second was delivered, and the cycle has ended
C13_Witness ==
    /\ pc = "idle"
    /\ Len(chunks) = 2
    /\ Len(cycle.sent) = 2
    /\ ~cycle.sent[1].ok
    /\ cycle.sent[2].ok
    /\ Cardinality(EnqueuedFor(1)) = 1

\* the row of the pending list at the cursor of sync_pending is at the ceiling
AtCeiling ==
    /\ pc = "sp_loop"
    /\ pidx <= Len(plist)
    /\ plist[pidx].retry_count >= AbandonCeiling

\* C14: sync_pending passes no batch whose retry_count is at the ceiling to
\* push_to_api; the skipped batch stays pending with the retry_count and
\* last_error it had, and the loop goes on with the next item of the list.
C14_CeilingSkipped ==
    /\ [](cycle.n > 0 =>
            /\ \A i \in 1..Len(Attempted) :
                 (CHOOSE r \in cycle.pre : r.id = Attempted[i]).retry_count
                     < AbandonCeiling
            /\ \A k \in 1..Len(plist) :
                 (plist[k].retry_count >= AbandonCeiling
                      /\ (k < pidx \/ pc \notin {"sp_loop", "sp_ret", "push"}))
                     => /\ \A i \in 1..Len(Attempted) : Attempted[i] # plist[k].id
                        /\ \E r \in cycle.pre : r.id = plist[k].id /\ r \in pending
            /\ \A i \in 1..Len(cycle.skipped) :
                 \E r \in cycle.pre :
                     /\ r.id = cycle.skipped[i]
                     /\ r.retry_count >= AbandonCeiling
                     /\ r \in pending)
    /\ [][AtCeiling =>
            /\ pc' = "sp_loop"
            /\ pidx' = pidx + 1
            /\ UNCHANGED <<pending, history, agentVars, pushVars, plist>>]_vars

\* witness of C14: four batches at the ceiling were skipped and the batch
\* after them in the list was attempted
C14_Witness ==
    /\ Len(cycle.skipped) = PendingLimit - 1
    /\ Len(cycle.attempts) = 1
    /\ Position(cycle.attempts[1].id) = PendingLimit
    /\ \A i \in 1..Len(cycle.skipped) :
         \E r \in pending : r.id = cycle.skipped[i] /\ r.retry_count = AbandonCeiling

---------------------------------------------------------------------------
(* Claims on the delivery engine, under SpecDeliver *)

\* C17: a running push_to_api call leaves the tables pending_sync and
\* sync_history exactly as they were when it was entered.
C17_DeliverLeavesQueue ==
    [][pc = "push" => (pending' = pending /\ history' = history)]_vars

---------------------------------------------------------------------------
(* Claims on cleanup_old, under SpecPurge *)

\* the age in ticks, at the clock t, of a timestamp text
AgeAt(t, txt) == t - IsoTime(txt)

\* C12: cleanup_old(days) deletes exactly the pending rows created more than
\* days ago and the history rows synced more than days ago, whatever their
\* retry_count, and leaves every other row as it was.
C12_PurgeByAge ==
    oplog.op = "cleanup_old" =>
        LET age == oplog.arg[1] * TicksPerDay
            t == oplog.arg[2]
        IN  /\ pending = {r \in oplog.enq.pending : AgeAt(t, r.created_at) <= age}
            /\ history = {h \in oplog.enq.history : AgeAt(t, h.synced_at) <= age}

\* witness of C12: cleanup_old(2 days) removed a pending batch 3 days old
\* that never failed and a history record 2.5 days old, and left a pending
\* batch 1 day old and one exactly 2 days old
C12_Witness ==
    /\ oplog.op = "cleanup_old"
    /\ oplog.arg = <<2, now>>
    /\ \E r \in oplog.enq.pending \ pending :
         AgeAt(now, r.created_at) = 3 * TicksPerDay /\ r.retry_count = 0
    /\ \E h \in oplog.enq.history \ history :
         2 * AgeAt(now, h.synced_at) > 4 * TicksPerDay
    /\ \E r \in pending : AgeAt(now, r.created_at) = TicksPerDay
    /\ \E r \in pending : AgeAt(now, r.created_at) = 2 * TicksPerDay

---------------------------------------------------------------------------
(* Claims on the identity of a batch, under SpecQueue *)

\* the ids uuid4 has returned so far
UsedIds == {Uuid(k) : k \in 1..next_id}

\* C15: in every step of any sequence of queue operations a pending row
\* keeps its id, store, payload, record count and creation time and its
\* retry_count does not decrease; no two pending rows share an id; and a row
\* entering pending_sync has an id never used before, so a batch that has
\* left pending_sync does not come back.
C15_BatchIdentity ==
    /\ [](/\ Cardinality(Ids(pending)) = Cardinality(pending)
          /\ Ids(pending) \cup Ids(history) \subseteq UsedIds
          /\ Ids(pending) \cap Ids(history) = {})
    /\ [][/\ \A r \in pending : \A q \in pending' :
                q.id = r.id
                    => /\ q.retry_count >= r.retry_count
                       /\ [q EXCEPT !.retry_count = r.retry_count,
                                    !.last_error = r.last_error] = r
          /\ \A q \in pending' :
                q.id \notin Ids(pending) => q.id \notin UsedIds
          /\ UsedIds \subseteq {Uuid(k) : k \in 1..next_id'}]_vars

\* witness of C15: the first batch has failed twice and is pending, the
\* second batch has left pending_sync and is in the history
C15_Witness ==
    /\ next_id = 2
    /\ \E r \in pending : r.id = Uuid(1) /\ r.retry_count = 2
    /\ Uuid(2) \in Ids(history)
    /\ Uuid(2) \notin Ids(pending)

---------------------------------------------------------------------------
(* Claims on the agent's run, under SpecRun and SpecStop *)

\* send_heartbeat is about to be called
HeartbeatCalled ==
    /\ pc = "idle"
    /\ \/ sched.at = "initial_heartbeat"
       \/ sched.at = "job" /\ sched.job = "heartbeat"

\* C16: a send_heartbeat call makes at most one transport call, raises
\* nothing whatever get_stats and the transport do, adds no pending batch and
\* leaves pending_sync, sync_history, sync_errors and last_sync as they were;
\* run() goes on after it.
C16_HeartbeatSwallowed ==
    [][HeartbeatCalled =>
          /\ Len(hb'.calls) <= 1
          /\ ~hb'.raised
          /\ pc' = "idle"
          /\ sched'.at \in {"loop", "pending"}
          /\ UNCHANGED <<pending, history, next_id, sync_errors, last_sync>>]_vars

\* witness of C16: a heartbeat timed out while a batch was pending and the
\* last sync cycle had failed
C16_Witness ==
    /\ sched.at \in {"loop", "pending"}
    /\ Len(hb.calls) = 1
    /\ hb.calls[1].resp = Timeout
    /\ hb.calls[1].payload.pending_records >= 1
    /\ sync_errors >= 1
    /\ pending # {}

\* the sync cycles that have been entered and have not returned
ActiveCycles == {i \in 1..Len(runlog) : runlog[i].end = None}

\* C18: at most one sync cycle is active, and no cycle is started for a tick
\* of the schedule that came due while an earlier cycle was running.
C18_NoOverlapNoCatchUp ==
    /\ Cardinality(ActiveCycles) <= 1
    /\ \A i \in 1..Len(runlog) : \A j \in 1..(i - 1) :
         /\ runlog[j].end # None
         /\ runlog[j].end[1] <= runlog[i].start
         /\ runlog[i].tick # None
              => ~(runlog[j].start <= runlog[i].tick[1]
                       /\ runlog[i].tick[1] < runlog[j].end[1])

\* the part of C18 that holds: cycles never overlap
NoOverlap ==
    /\ Cardinality(ActiveCycles) <= 1
    /\ \A i \in 1..Len(runlog) : \A j \in 1..(i - 1) :
         runlog[j].end # None /\ runlog[j].end[1] <= runlog[i].start

\* C19: once the stop signal was observed no sync cycle is started, and the
\* sync cycle and the push_to_api call that were running have finished.
C19_StopLetsCycleFinish ==
    /\ [](pc = "stopped" => (ActiveCycles = {} /\ push = NoPush))
    /\ [][pc = "stopped" => (runlog' = runlog /\ cycle' = cycle)]_vars

\* the part of C19 that holds: no sync cycle starts after the stop
NoCycleAfterStop ==
    [][pc = "stopped" => (runlog' = runlog /\ cycle' = cycle /\ calls' = calls)]_vars

\* the extraction of the last sync cycle failed
FailedExtraction == cycle.n > 0 /\ cycle.extracted /\ data = None

\* C20: when extract_data fails, run_extraction_job returns without raising,
\* having chunked, sent and enqueued nothing; what the redelivery phase of
\* the cycle did to the tables is still there; and run() goes on with the
\* extraction job scheduled as after any other cycle.
C20_ExtractionFailureContained ==
    /\ FailedExtraction =>
         /\ pc = "idle"
         /\ chunks = <<>>
         /\ cidx = 0
         /\ cycle.sent = <<>>
         /\ push = NoPush
         /\ Ids(pending) \subseteq Ids(cycle.pre)
         /\ sched.at \in {"job", "initial_heartbeat", "loop", "pending"}
    /\ (FailedExtraction /\ sched.job = "extraction") =>
         \A i \in 1..Len(cycle.attempts) :
             LET id == cycle.attempts[i].id
                 before == CHOOSE r \in cycle.pre : r.id = id
             IN  IF cycle.attempts[i].ok
                 THEN id \notin Ids(pending)
                      /\ \E h \in history : h.id = id /\ h.record_count = before.record_count
                 ELSE \E r \in pending :
                          r.id = id /\ r.retry_count = before.retry_count + 1
    /\ (FailedExtraction /\ sched.job # "extraction") =>
         /\ runlog[Len(runlog)].failed
         /\ runlog[Len(runlog)].end # None
         /\ sched.next_run.extraction
                <= runlog[Len(runlog)].end[1] + ExtractionInterval

\* witness of C20: the first cycle delivered a pending batch and then its
\* extraction failed; the cycle of the next tick extracted and delivered a
\* chunk
C20_Witness ==
    /\ Len(runlog) = 2
    /\ runlog[1].failed
    /\ Uuid(1) \in Ids(history)
    /\ runlog[2].end # None
    /\ ~runlog[2].failed
    /\ Len(cycle.sent) >= 1
    /\ cycle.sent[1].ok

---------------------------------------------------------------------------
(* Claims on what the cycle sends, under Spec *)

\* C26: no delivery call is issued for a chunk whose record count is 0: every
\* payload run_extraction_job hands to push_to_api has chunk_records >= 1.
C26_NoEmptyChunkSent ==
    (pc = "push" /\ push.caller = "ck_ret")
        => push.payload.chunk_info.chunk_records >= 1

\* a push_to_api call returns True in this step
DeliverySucceeds == pc = "push" /\ ret' = <<TRUE>>

\* C25: every successful delivery, of a fresh chunk or of a redelivered
\* pending batch, adds one record to sync_history.
C25_EveryDeliveryRecorded ==
    [][DeliverySucceeds => Cardinality(history') = Cardinality(history) + 1]_vars

\* the successful redeliveries are recorded, with the record count of the batch
RedeliveryRecorded ==
    [][(DeliverySucceeds /\ push.sync_id # None)
          => \E r \in pending :
                /\ r.id = push.sync_id
                /\ \E h \in history' \ history :
                      h.id = r.id /\ h.record_count = r.record_count]_vars

\* the pending rows whose retry_count differs from the one they had when the
\* cycle started
Retried ==
    {r \in pending : \E q \in cycle.pre : q.id = r.id /\ q.retry_count # r.retry_count}

\* C28: the retry_count of every pending batch is within 0..10, and a cycle
\* increments the retry_count of at most one batch, by exactly 1, and never
\* of a batch that is already at 10.
C28_RetryCountBounded ==
    /\ \A r \in pending : r.retry_count \in 0..AbandonCeiling
    /\ Cardinality(Retried) <= 1
    /\ \A r \in Retried : \A q \in cycle.pre :
          q.id = r.id => /\ r.retry_count = q.retry_count + 1
                         /\ q.retry_count < AbandonCeiling

\* witness of C28: the cycle has moved a batch from 9 failures to the
\* ceiling, next to a batch it left alone
C28_Witness ==
    /\ \E r \in Retried : r.retry_count = AbandonCeiling
    /\ \E r \in pending \ Retried : r.id \in Ids(cycle.pre)
    /\ pc = "idle"

---------------------------------------------------------------------------
(* Claims on the failure counter, under SpecRun *)

\* send_heartbeat is called in this step
HeartbeatSent ==
    /\ pc = "idle"
    /\ \/ sched.at = "initial_heartbeat"
       \/ sched.at = "job" /\ sched.job = "heartbeat"
    /\ sched'.at # sched.at

\* the results of the push_to_api calls the running cycle has finished, in
\* the order of the calls
Outcomes ==
    [i \in 1..Len(cycle.attempts) |-> cycle.attempts[i].ok]
        \o [i \in 1..Len(cycle.sent) |-> cycle.sent[i].ok]

\* the number of failures at the end of a sequence of results
RECURSIVE TrailingFailures(_)
TrailingFailures(s) ==
    IF s = <<>> \/ s[Len(s)] THEN 0
    ELSE 1 + TrailingFailures(SubSeq(s, 1, Len(s) - 1))

\* C30: sync_errors counts the deliveries that exhausted their attempts since
\* the last successful delivery: it starts at 0, a push_to_api call that
\* returns True sets it to 0, one that returns False adds exactly 1, and no
\* other step (a failed attempt that is retried, a heartbeat, a queue
\* operation) changes it; a heartbeat reports "degraded" iff the counter is
\* at least 3 and "healthy" otherwise.
C30_FailureCounter ==
    /\ [](cycle.n = 0 => sync_errors = 0)
    /\ []((/\ pc \in {"sp_loop", "extract", "ck_loop", "idle"}
           /\ cycle.n = 1 \/ \E i \in DOMAIN Outcomes : Outcomes[i])
              => sync_errors = TrailingFailures(Outcomes))
    /\ [][sync_errors' = IF pc = "push" /\ ret' = <<TRUE>> THEN 0
                         ELSE IF pc = "push" /\ ret' = <<FALSE>> THEN sync_errors + 1
                         ELSE sync_errors]_vars
    /\ [][(HeartbeatSent /\ hb'.calls # <<>>)
             => hb'.calls[1].payload.status =
                    IF sync_errors >= 3 THEN "degraded" ELSE "healthy"]_vars

\* witness of C30: three deliveries in a row were exhausted and the heartbeat
\* that followed reported "degraded"
C30_Witness ==
    /\ sync_errors = 3
    /\ hb.calls # <<>>
    /\ hb.calls[1].payload.status = "degraded"

---------------------------------------------------------------------------
(* Claims on the two tables, under SpecQueue *)

\* C29: no id is in both pending_sync and sync_history; a history record is
\* inserted with the id, store_id and record_count of a batch that was
\* pending until then; a history record is never modified, only removed, and
\* removed only by cleanup_old.
C29_HistoryAppendOnly ==
    /\ [](Ids(pending) \cap Ids(history) = {})
    /\ [][\A h \in history' \ history :
              /\ h.id \notin Ids(history)
              /\ \E r \in pending \ pending' :
                    /\ r.id = h.id
                    /\ r.store_id = h.store_id
                    /\ r.record_count = h.record_count]_vars
    /\ [][\A h \in history \ history' :
              /\ h.id \notin Ids(history')
              /\ oplog'.op = "cleanup_old"]_vars

\* witness of C29: a batch of two records was moved to the history while
\* another batch stayed pending
C29_Witness ==
    /\ oplog.op = "mark_synced"
    /\ \E h \in history : h.id = oplog.id /\ h.record_count = 2
    /\ pending # {}

---------------------------------------------------------------------------
(* Claims on the life of a pending batch, under SpecRun *)

\* the running push_to_api call redelivers row r and returns True in this
\* step, after the transport answered HTTP 200 to the stored payload of r
DeliveredNow(r) ==
    /\ pc = "push"
    /\ push.sync_id = r.id
    /\ ret' = <<TRUE>>
    /\ calls'[Len(calls')].payload = JsonLoads(r.payload)
    /\ calls'[Len(calls')].resp = HttpOk
    /\ r.id \in Ids(history')

\* the cleanup job runs in this step and row r is older than the cutoff
PurgedNow(r) ==
    /\ sched.at = "job"
    /\ sched.job = "cleanup"
    /\ AgeAt(now, r.created_at) > MaxBufferAgeDays * TicksPerDay

\* C24: a pending batch leaves pending_sync only by mark_synced after an
\* HTTP 200 answer to its stored payload, or by the purge by age; until then
\* it stays pending with its id, store_id, payload and record_count, also
\* after a failed redelivery and at the retry ceiling.
C24_NeverSilentlyLost ==
    [][\A r \in pending :
          IF r.id \in Ids(pending')
          THEN \E q \in pending' :
                  /\ q.id = r.id
                  /\ q.store_id = r.store_id
                  /\ q.payload = r.payload
                  /\ q.record_count = r.record_count
                  /\ q.created_at = r.created_at
                  /\ q.status = "pending"
          ELSE DeliveredNow(r) \/ PurgedNow(r)]_vars

\* witness of C24: a batch at the retry ceiling was skipped by a cycle and
\* stayed pending until the cleanup job purged it
C24_Witness ==
    /\ cycle.skipped # <<>>
    /\ pending = {}
    /\ history = {}
    /\ sched.next_run.cleanup > BaseClock + TicksPerDay

---------------------------------------------------------------------------
(* Claims on storage failures, under SpecFault *)

\* C21: a cleanup_old call that raises is logged only: run() is not left,
\* and the scheduler loop goes on to later cycles and heartbeats.
C21_PurgeFailureLoggedOnly ==
    (oplog.raised /\ oplog.op = "cleanup_old") => pc # "crashed"

\* an operation of the queue raised during a sync cycle
CycleStorageFailure ==
    oplog.raised /\ oplog.op \in {"add_pending", "mark_synced", "mark_failed"}

\* C22: when add_pending, mark_synced or mark_failed raises during a sync
\* cycle the exception leaves the cycle and run(): the agent has crashed, and
\* it takes no further step, so no cycle continues after a failed chunk could
\* not be persisted.
C22_StorageFailureFatal ==
    /\ [](CycleStorageFailure => pc = "crashed")
    /\ [][pc = "crashed" => FALSE]_vars

\* witness of C22: the second chunk of a cycle failed, add_pending raised
\* for it, and the agent crashed with the first chunk buffered
C22_Witness ==
    /\ pc = "crashed"
    /\ oplog = Raised("add_pending", None)
    /\ cidx = 2
    /\ Enqueued # {}

---------------------------------------------------------------------------
(* Claims on concurrent callers, under SpecConc *)

\* what a finished get_stats call returned are the statistics of the tables
\* as they were at some moment of the call
StatsAtomic ==
    \A c \in Callers :
        (conn[c].op = "get_stats" /\ conn[c].at = "done")
            => conn[c].res \in conn[c].snaps

\* no mark_synced call has raised
MarkSyncedNoError == \A c \in Callers : ~conn[c].raised

\* the committed tables hold no id twice
TablesConsistent ==
    /\ Ids(pending) \cap Ids(history) = {}
    /\ \A h1 \in history : \A h2 \in history : h1.id = h2.id => h1 = h2

\* C23: with callers interleaved, every operation of the queue takes effect
\* as one atomic unit: get_stats reports the tables of one moment (no batch
\* is counted both as pending and as synced), no id is ever in both tables
\* or twice in the history, and two concurrent mark_synced calls for one id
\* leave one history record and raise no error.
C23_OperationsAtomic == StatsAtomic /\ MarkSyncedNoError /\ TablesConsistent

---------------------------------------------------------------------------
(* Claims on progress, under SpecLive *)

\* the ids of the pending rows below the retry ceiling
Retryable == Ids({r \in pending : r.retry_count < AbandonCeiling})

\* the pending rows at the retry ceiling
Abandoned == {r \in pending : r.retry_count >= AbandonCeiling}

\* C27: with the transport answering 200 and cycles run for ever, every
\* pending batch below the retry ceiling is eventually delivered and removed
\* from pending_sync, however many abandoned batches are older than it.
C27_NoStarvation ==
    \A i \in 1..(PendingLimit + 1) :
        (Uuid(i) \in Retryable) ~> (Uuid(i) \notin Ids(pending))

\* a retryable batch is delivered when fewer than get_pending's limit of
\* abandoned batches are pending
DeliveredBehindFewAbandoned ==
    \A i \in 1..(PendingLimit + 1) :
        (Uuid(i) \in Retryable /\ Cardinality(Abandoned) < PendingLimit)
            ~> (Uuid(i) \notin Ids(pending))

===========================================================================
